---- MODULE Spec2Model ----
(***************************************************************************)
(* Storage strategies of boltdb-benchmarks: six layouts of a UserInfo      *)
(* record in an ordered key/value store (JSON, GOB, Binary, Binary+Names,  *)
(* MultiKV, NestedBucket) behind the StorageStrategy interface.            *)
(*                                                                         *)
(* Conventions of the model                                                *)
(*   - a byte is a number 0..255, a []byte or Go string a sequence of      *)
(*     bytes;                                                              *)
(*   - a float32/float64 value is the integer number of quarters it holds  *)
(*     (42 is 10.5, 398 is 99.5): all values used are multiples of 0.25    *)
(*     and are exact in both widths.  The IEEE bit pattern written by      *)
(*     binary.Write is represented by the two's complement bytes of that   *)
(*     number, an injective code like the real one;                        *)
(*   - a bucket is the sequence of its <<key, value>> pairs in ascending   *)
(*     byte order of the keys, which is the order the store's cursor       *)
(*     yields them in;                                                     *)
(*   - a *UserInfo is a sequence: << >> is nil, <<u>> points to u;         *)
(*   - an error value is a string naming its kind, "nil" is no error and   *)
(*     "panic" is a run-time panic of the call.                            *)
(***************************************************************************)
EXTENDS Integers, Sequences, FiniteSets, TLC

VARIABLES db, last, strategy, written, nUpdates

vars == <<db, last, strategy, written, nUpdates>>

----------------------------------------------------------------------------
(* Bounds *)

MaxId == 1
MaxCount == 2
MaxBatch == 2
MaxUpdates == 1
MaxText == 1

\* the largest record count of a trial of the driver
MaxRecords == 4

----------------------------------------------------------------------------
(* Bytes and integers *)

Min(a, b) == IF a < b THEN a ELSE b

Pow256(i) == CASE i = 0 -> 1 [] i = 1 -> 256 [] i = 2 -> 65536 [] OTHER -> 16777216

\* byte i (0 = least significant) of the two's complement form of v
ByteOf(v, i) ==
    IF i > 3 THEN (IF v >= 0 THEN 0 ELSE 255)
    ELSE IF v >= 0 THEN (v \div Pow256(i)) % 256
    ELSE 255 - (((-v - 1) \div Pow256(i)) % 256)

LittleEndian(n, v) == [i \in 1..n |-> ByteOf(v, i - 1)]

BigEndian(n, v) == [i \in 1..n |-> ByteOf(v, n - i)]

RECURSIVE Unsigned(_, _)
\* the number held by the k low bytes of the little-endian sequence bs
Unsigned(bs, k) == IF k = 0 THEN 0 ELSE bs[k] * Pow256(k - 1) + Unsigned(bs, k - 1)

RECURSIVE Complement(_, _)
Complement(bs, k) ==
    IF k = 0 THEN 0 ELSE (255 - bs[k]) * Pow256(k - 1) + Complement(bs, k - 1)

\* signed value of a little-endian sequence
LittleEndianInt(bs) ==
    LET k == Min(Len(bs), 4)
    IN  IF bs[Len(bs)] >= 128 THEN -(1 + Complement(bs, k)) ELSE Unsigned(bs, k)

\* unsigned value of a little-endian sequence (values below 2^31)
LittleEndianUint(bs) == Unsigned(bs, Min(Len(bs), 4))

Reverse(bs) == [i \in 1..Len(bs) |-> bs[Len(bs) + 1 - i]]

BigEndianInt(bs) == LittleEndianInt(Reverse(bs))

Zeros(n) == [i \in 1..n |-> 0]

IsPrefix(p, s) == Len(p) <= Len(s) /\ SubSeq(s, 1, Len(p)) = p

IsSuffix(p, s) == Len(p) <= Len(s) /\ SubSeq(s, Len(s) - Len(p) + 1, Len(s)) = p

RECURSIVE BytesLessFrom(_, _, _)
\* the comparison from byte i on, eight equal bytes at a time where it can
BytesLessFrom(a, b, i) ==
    IF i + 7 <= Len(a) /\ i + 7 <= Len(b) /\ SubSeq(a, i, i + 7) = SubSeq(b, i, i + 7)
    THEN BytesLessFrom(a, b, i + 8)
    ELSE IF i > Len(a) THEN i <= Len(b)
    ELSE IF i > Len(b) THEN FALSE
    ELSE IF a[i] # b[i] THEN a[i] < b[i]
    ELSE BytesLessFrom(a, b, i + 1)

\* bytes.Compare(a, b) < 0
BytesLess(a, b) == BytesLessFrom(a, b, 1)

RECURSIVE Digits(_)
Digits(n) == IF n < 10 THEN <<48 + n>> ELSE Append(Digits(n \div 10), 48 + (n % 10))

\* strconv.FormatInt(v, 10)
FormatInt(v) == IF v < 0 THEN <<45>> \o Digits(-v) ELSE Digits(v)

IsDigits(s) == s # << >> /\ \A i \in 1..Len(s) : s[i] \in 48..57

RECURSIVE DigitsValue(_, _)
DigitsValue(s, k) == IF k = 0 THEN 0 ELSE DigitsValue(s, k - 1) * 10 + (s[k] - 48)

\* strconv.ParseInt(s, 10, bits) with the error dropped: 0 on a syntax error
ParseInt(s) ==
    IF IsDigits(s) THEN DigitsValue(s, Len(s))
    ELSE IF s # << >> /\ Head(s) \in {43, 45} /\ IsDigits(Tail(s))
         THEN (IF Head(s) = 45 THEN -1 ELSE 1) * DigitsValue(Tail(s), Len(s) - 1)
    ELSE 0

----------------------------------------------------------------------------
(* The record *)

FieldNames ==
    <<"id", "username", "email", "first_name", "last_name", "age", "height",
      "weight", "balance", "is_active", "created_at", "updated_at",
      "login_count", "score", "description">>

\* []byte(name) for the names used as keys, field names and arguments
Bytes ==
    [id |-> <<105, 100>>,
     username |-> <<117, 115, 101, 114, 110, 97, 109, 101>>,
     email |-> <<101, 109, 97, 105, 108>>,
     first_name |-> <<102, 105, 114, 115, 116, 95, 110, 97, 109, 101>>,
     last_name |-> <<108, 97, 115, 116, 95, 110, 97, 109, 101>>,
     age |-> <<97, 103, 101>>,
     height |-> <<104, 101, 105, 103, 104, 116>>,
     weight |-> <<119, 101, 105, 103, 104, 116>>,
     balance |-> <<98, 97, 108, 97, 110, 99, 101>>,
     is_active |-> <<105, 115, 95, 97, 99, 116, 105, 118, 101>>,
     created_at |-> <<99, 114, 101, 97, 116, 101, 100, 95, 97, 116>>,
     updated_at |-> <<117, 112, 100, 97, 116, 101, 100, 95, 97, 116>>,
     login_count |-> <<108, 111, 103, 105, 110, 95, 99, 111, 117, 110, 116>>,
     score |-> <<115, 99, 111, 114, 101>>,
     description |-> <<100, 101, 115, 99, 114, 105, 112, 116, 105, 111, 110>>,
     nosuch |-> <<110, 111, 115, 117, 99, 104>>,
     true |-> <<116, 114, 117, 101>>,
     false |-> <<102, 97, 108, 115, 101>>]

\* the struct field and the Go type of each json tag (data.go)
Fields ==
    [id |-> [go |-> "ID", type |-> "int64"],
     username |-> [go |-> "Username", type |-> "string"],
     email |-> [go |-> "Email", type |-> "string"],
     first_name |-> [go |-> "FirstName", type |-> "string"],
     last_name |-> [go |-> "LastName", type |-> "string"],
     age |-> [go |-> "Age", type |-> "int32"],
     height |-> [go |-> "Height", type |-> "float32"],
     weight |-> [go |-> "Weight", type |-> "float32"],
     balance |-> [go |-> "Balance", type |-> "float64"],
     is_active |-> [go |-> "IsActive", type |-> "bool"],
     created_at |-> [go |-> "CreatedAt", type |-> "int64"],
     updated_at |-> [go |-> "UpdatedAt", type |-> "int64"],
     login_count |-> [go |-> "LoginCount", type |-> "int32"],
     score |-> [go |-> "Score", type |-> "float64"],
     description |-> [go |-> "Description", type |-> "string"]]

\* the struct field a json tag names, "" for a name that is no field
GoField(name) == IF name \in DOMAIN Fields THEN Fields[name].go ELSE ""

\* the Go type of a field, "" for a name that is no field
TypeOf(name) == IF name \in DOMAIN Fields THEN Fields[name].type ELSE ""

\* the field names by their bytes
Names == [bs \in {Bytes[FieldNames[i]] : i \in 1..Len(FieldNames)} |->
             FieldNames[CHOOSE i \in 1..Len(FieldNames) : Bytes[FieldNames[i]] = bs]]

\* the field name a byte string spells, "" when it spells none
NameOf(bs) == IF bs \in DOMAIN Names THEN Names[bs] ELSE ""

\* &UserInfo{}
UserInfo ==
    [ID |-> 0, Username |-> << >>, Email |-> << >>, FirstName |-> << >>,
     LastName |-> << >>, Age |-> 0, Height |-> 0, Weight |-> 0, Balance |-> 0,
     IsActive |-> FALSE, CreatedAt |-> 0, UpdatedAt |-> 0, LoginCount |-> 0,
     Score |-> 0, Description |-> << >>]

----------------------------------------------------------------------------
(* encoding/binary and bytes.Reader, as the two hand-written codecs use them *)

\* binary.Write(buf, binary.LittleEndian, v) for a fixed-width v of type t
FixedBytes(t, v) ==
    CASE t = "int64" -> LittleEndian(8, v)
      [] t = "int32" -> LittleEndian(4, v)
      [] t = "float32" -> LittleEndian(4, v)
      [] t = "float64" -> LittleEndian(8, v)
      [] t = "bool" -> IF v THEN <<1>> ELSE <<0>>

WidthOf(t) ==
    CASE t \in {"int64", "float64"} -> 8 [] t \in {"int32", "float32"} -> 4 [] OTHER -> 1

\* the value binary.Read stores from the bytes bs of a fixed-width type t
FixedValue(t, bs) == IF t = "bool" THEN bs[1] # 0 ELSE LittleEndianInt(bs)

\* (*bytes.Reader).Read(b) with len(b) = n at offset pos of data: io.EOF when
\* the reader is at its end (also for n = 0), else min(n, rest) bytes, the
\* tail of b staying zero
ReaderRead(data, pos, n) ==
    IF pos >= Len(data) THEN [err |-> "EOF", n |-> 0, b |-> Zeros(n)]
    ELSE LET k == Min(n, Len(data) - pos)
         IN  [err |-> "nil", n |-> k, b |-> SubSeq(data, pos + 1, pos + k) \o Zeros(n - k)]

----------------------------------------------------------------------------
(* 3. Binary: values only, in a fixed order (binary.go) *)

BinaryOrder ==
    <<"id", "username", "email", "first_name", "last_name", "description", "age",
      "height", "weight", "balance", "is_active", "created_at", "updated_at",
      "login_count", "score">>

RECURSIVE encodeBinaryFrom(_, _)
encodeBinaryFrom(user, i) ==
    IF i > Len(BinaryOrder) THEN << >>
    ELSE LET name == BinaryOrder[i]
             v == user[GoField(name)]
         IN  (IF TypeOf(name) = "string" THEN LittleEndian(4, Len(v)) \o v
              ELSE FixedBytes(TypeOf(name), v))
             \o encodeBinaryFrom(user, i + 1)

encodeBinary(user) == encodeBinaryFrom(user, 1)

\* one field of decodeBinary; every error of binary.Read and buf.Read is
\* dropped: a short binary.Read drains the reader and leaves its target as it
\* was, strLen included
decodeBinaryField(data, st, name) ==
    LET t == TypeOf(name)
        rest == Len(data) - st.pos
    IN  IF st.panic THEN st
        ELSE IF t = "string" THEN
            LET gotLen == rest >= 4
                strLen == IF gotLen THEN LittleEndianInt(SubSeq(data, st.pos + 1, st.pos + 4))
                          ELSE st.strLen
                pos1 == IF gotLen THEN st.pos + 4 ELSE Len(data)
            IN  IF strLen < 0 THEN [st EXCEPT !.panic = TRUE]
                ELSE LET r == ReaderRead(data, pos1, strLen)
                     IN  [st EXCEPT !.pos = pos1 + r.n, !.strLen = strLen,
                                    !.user[GoField(name)] = r.b]
        ELSE IF rest >= WidthOf(t) THEN
            [st EXCEPT !.pos = @ + WidthOf(t),
                       !.user[GoField(name)] =
                           FixedValue(t, SubSeq(data, st.pos + 1, st.pos + WidthOf(t)))]
        ELSE [st EXCEPT !.pos = Len(data)]

RECURSIVE decodeBinaryFrom(_, _, _)
decodeBinaryFrom(data, st, i) ==
    IF i > Len(BinaryOrder) THEN st
    ELSE decodeBinaryFrom(data, decodeBinaryField(data, st, BinaryOrder[i]), i + 1)

decodeBinary(data) ==
    LET st == decodeBinaryFrom(data, [pos |-> 0, strLen |-> 0, user |-> UserInfo, panic |-> FALSE], 1)
    IN  IF st.panic THEN [err |-> "panic", user |-> << >>]
        ELSE [err |-> "nil", user |-> <<st.user>>]

----------------------------------------------------------------------------
(* 4. Binary+Names: name, type tag and payload per field (binary_with_names.go) *)

tagInt64 == 1
tagString == 2
tagInt32 == 3
tagFloat32 == 4
tagFloat64 == 5
tagBool == 6

TagOf(t) ==
    CASE t = "int64" -> tagInt64 [] t = "string" -> tagString [] t = "int32" -> tagInt32
      [] t = "float32" -> tagFloat32 [] t = "float64" -> tagFloat64 [] t = "bool" -> tagBool

TypeOfTag(tag) ==
    CASE tag = tagInt64 -> "int64" [] tag = tagString -> "string" [] tag = tagInt32 -> "int32"
      [] tag = tagFloat32 -> "float32" [] tag = tagFloat64 -> "float64" [] tag = tagBool -> "bool"
      [] OTHER -> ""

RECURSIVE encodeBinaryWithNamesFrom(_, _)
encodeBinaryWithNamesFrom(user, i) ==
    IF i > Len(FieldNames) THEN << >>
    ELSE LET name == FieldNames[i]
             t == TypeOf(name)
             v == user[GoField(name)]
         IN  LittleEndian(4, Len(Bytes[name])) \o Bytes[name] \o <<TagOf(t)>>
             \o (IF t = "string" THEN LittleEndian(4, Len(v)) \o v ELSE FixedBytes(t, v))
             \o encodeBinaryWithNamesFrom(user, i + 1)

\* the writes to a bytes.Buffer never fail and every tag of the table is known
encodeBinaryWithNames(user) ==
    [err |-> "nil",
     data |-> LittleEndian(4, Len(FieldNames)) \o encodeBinaryWithNamesFrom(user, 1)]

DecodeError == [err |-> "DecodeError", user |-> << >>]

RECURSIVE decodeBinaryWithNamesFrom(_, _, _, _, _)
\* a decoder whose inner switches have no default: a payload whose name is
\* none of the cases of its tag is read and dropped
decodeBinaryWithNamesFrom_NoDefault(data, pos, user, i, fieldCount) ==
    IF i >= fieldCount THEN [err |-> "nil", user |-> <<user>>]
    ELSE IF Len(data) - pos < 4 THEN DecodeError
    ELSE
    LET nameLen == LittleEndianInt(SubSeq(data, pos + 1, pos + 4)) IN
    IF nameLen < 0 THEN [err |-> "panic", user |-> << >>]
    ELSE
    LET nm == ReaderRead(data, pos + 4, nameLen)
        posTag == pos + 4 + nm.n
    IN
    IF nm.err # "nil" \/ posTag >= Len(data) THEN DecodeError
    ELSE
    LET fieldName == NameOf(nm.b)
        t == TypeOfTag(data[posTag + 1])
        p == posTag + 1
    IN
    IF t = "" THEN DecodeError
    ELSE IF t = "string" THEN
        IF Len(data) - p < 4 THEN DecodeError
        ELSE LET strLen == LittleEndianInt(SubSeq(data, p + 1, p + 4)) IN
             IF strLen < 0 THEN [err |-> "panic", user |-> << >>]
             ELSE LET r == ReaderRead(data, p + 4, strLen) IN
                  IF r.err # "nil" THEN DecodeError
                  ELSE decodeBinaryWithNamesFrom(data, p + 4 + r.n,
                           IF TypeOf(fieldName) = "string"
                           THEN [user EXCEPT ![GoField(fieldName)] = r.b] ELSE user,
                           i + 1, fieldCount)
    ELSE IF Len(data) - p < WidthOf(t) THEN DecodeError
    ELSE decodeBinaryWithNamesFrom(data, p + WidthOf(t),
             IF TypeOf(fieldName) = t
             THEN [user EXCEPT ![GoField(fieldName)] =
                      FixedValue(t, SubSeq(data, p + 1, p + WidthOf(t)))]
             ELSE user,
             i + 1, fieldCount)

decodeBinaryWithNamesFrom(data, pos, user, i, fieldCount) ==
    IF i >= fieldCount THEN [err |-> "nil", user |-> <<user>>]
    ELSE IF Len(data) - pos < 4 THEN DecodeError
    ELSE
    LET nameLen == LittleEndianInt(SubSeq(data, pos + 1, pos + 4)) IN
    IF nameLen < 0 THEN [err |-> "panic", user |-> << >>]
    ELSE
    LET nm == ReaderRead(data, pos + 4, nameLen)
        posTag == pos + 4 + nm.n
    IN
    IF nm.err # "nil" \/ posTag >= Len(data) THEN DecodeError
    ELSE
    LET fieldName == NameOf(nm.b)
        t == TypeOfTag(data[posTag + 1])
        p == posTag + 1
    IN
    IF t = "" THEN DecodeError
    ELSE IF t = "string" THEN
        IF Len(data) - p < 4 THEN DecodeError
        ELSE LET strLen == LittleEndianInt(SubSeq(data, p + 1, p + 4)) IN
             IF strLen < 0 THEN [err |-> "panic", user |-> << >>]
             ELSE LET r == ReaderRead(data, p + 4, strLen) IN
                  IF r.err # "nil" \/ TypeOf(fieldName) # "string" THEN DecodeError
                  ELSE decodeBinaryWithNamesFrom(data, p + 4 + r.n,
                           [user EXCEPT ![GoField(fieldName)] = r.b], i + 1, fieldCount)
    ELSE IF Len(data) - p < WidthOf(t) \/ TypeOf(fieldName) # t THEN DecodeError
    ELSE decodeBinaryWithNamesFrom(data, p + WidthOf(t),
             [user EXCEPT ![GoField(fieldName)] =
                  FixedValue(t, SubSeq(data, p + 1, p + WidthOf(t)))],
             i + 1, fieldCount)

decodeBinaryWithNames(data) ==
    IF Len(data) < 4 THEN DecodeError
    ELSE decodeBinaryWithNamesFrom(data, 4, UserInfo, 0,
                                   LittleEndianInt(SubSeq(data, 1, 4)))

----------------------------------------------------------------------------
(* encoding/json and encoding/gob, as the JSON and GOB strategies use them *)

\* a float64 in decimal: the whole part, then .25, .5 or .75
FormatFloat(q) ==
    LET a == IF q < 0 THEN -q ELSE q
        frac == CASE a % 4 = 0 -> << >> [] a % 4 = 1 -> <<46, 50, 53>>
                  [] a % 4 = 2 -> <<46, 53>> [] OTHER -> <<46, 55, 53>>
    IN  (IF q < 0 THEN <<45>> ELSE << >>) \o Digits(a \div 4) \o frac

ParseFloat(s) ==
    LET neg == s # << >> /\ Head(s) = 45
        t == IF neg THEN Tail(s) ELSE s
        dot == IF \E i \in 1..Len(t) : t[i] = 46
               THEN CHOOSE i \in 1..Len(t) : t[i] = 46 ELSE Len(t) + 1
        whole == ParseInt(SubSeq(t, 1, dot - 1))
        f == SubSeq(t, dot + 1, Len(t))
        frac == CASE f = <<50, 53>> -> 1 [] f = <<53>> -> 2 [] f = <<55, 53>> -> 3 [] OTHER -> 0
    IN  (IF neg THEN -1 ELSE 1) * (whole * 4 + frac)

\* the JSON text of one field value
jsonValue(t, v) ==
    CASE t = "string" -> <<34>> \o v \o <<34>>
      [] t \in {"int64", "int32"} -> FormatInt(v)
      [] t \in {"float32", "float64"} -> FormatFloat(v)
      [] t = "bool" -> IF v THEN Bytes.true ELSE Bytes.false

\* the float that is not a number.  No float of the model is negative, and
\* the number -1 stands for NaN: its bytes differ from those of every other
\* float of the model, as the bit pattern of NaN does
NaN == -1

\* json.Marshal(user) returns an UnsupportedValueError: a float field is NaN
jsonUnsupported(user) ==
    \E i \in 1..Len(FieldNames) :
        /\ TypeOf(FieldNames[i]) \in {"float32", "float64"}
        /\ user[GoField(FieldNames[i])] = NaN

\* json.Marshal(user) when it returns no error: the members of the object, in
\* struct order, each a pair of its json tag and the text of its value
jsonMarshal(user) ==
    [i \in 1..Len(FieldNames) |->
        <<Bytes[FieldNames[i]], jsonValue(TypeOf(FieldNames[i]), user[GoField(FieldNames[i])])>>]

jsonWellTyped(t, text) ==
    CASE t = "string" -> Len(text) >= 2 /\ Head(text) = 34 /\ text[Len(text)] = 34
      [] t = "bool" -> text \in {Bytes.true, Bytes.false}
      [] t = "" -> TRUE
      [] OTHER -> text # << >> /\ Head(text) \in (48..57) \cup {45}

jsonFieldValue(t, text) ==
    CASE t = "string" -> SubSeq(text, 2, Len(text) - 1)
      [] t \in {"int64", "int32"} -> ParseInt(text)
      [] t \in {"float32", "float64"} -> ParseFloat(text)
      [] t = "bool" -> text = Bytes.true

RECURSIVE jsonUnmarshalFrom(_, _, _)
jsonUnmarshalFrom(data, user, i) ==
    IF i > Len(data) THEN [err |-> "nil", user |-> user]
    ELSE LET name == NameOf(data[i][1])
             t == TypeOf(name)
         IN  IF ~jsonWellTyped(t, data[i][2]) THEN [err |-> "DecodeError", user |-> user]
             ELSE IF name = "" THEN jsonUnmarshalFrom(data, user, i + 1)
             ELSE jsonUnmarshalFrom(data,
                      [user EXCEPT ![GoField(name)] = jsonFieldValue(t, data[i][2])], i + 1)

\* json.Unmarshal(data, &user) into a zero user: unknown members are skipped
jsonUnmarshal(data) == jsonUnmarshalFrom(data, UserInfo, 1)

gobIsZero(t, v) ==
    CASE t = "string" -> v = << >> [] t = "bool" -> v = FALSE [] OTHER -> v = 0

\* gob's Encode(user): the fields that are not zero, each with its number in
\* the struct and its value
gobEncode(user) ==
    LET sent == {i \in 1..Len(FieldNames) :
                    ~gobIsZero(TypeOf(FieldNames[i]), user[GoField(FieldNames[i])])}
        nth[k \in 0..Len(FieldNames)] ==
            IF k = 0 THEN << >>
            ELSE IF k \in sent
                 THEN Append(nth[k - 1],
                        <<k, IF TypeOf(FieldNames[k]) = "string"
                             THEN user[GoField(FieldNames[k])]
                             ELSE FixedBytes(TypeOf(FieldNames[k]), user[GoField(FieldNames[k])])>>)
                 ELSE nth[k - 1]
    IN  nth[Len(FieldNames)]

RECURSIVE gobDecodeFrom(_, _, _)
gobDecodeFrom(data, user, i) ==
    IF i > Len(data) THEN [err |-> "nil", user |-> user]
    ELSE IF data[i][1] \notin 1..Len(FieldNames) THEN [err |-> "DecodeError", user |-> user]
    ELSE LET name == FieldNames[data[i][1]]
             t == TypeOf(name)
         IN  IF t # "string" /\ Len(data[i][2]) # WidthOf(t)
             THEN [err |-> "DecodeError", user |-> user]
             ELSE gobDecodeFrom(data,
                      [user EXCEPT ![GoField(name)] =
                           IF t = "string" THEN data[i][2] ELSE FixedValue(t, data[i][2])],
                      i + 1)

\* gob's Decode(&user) into a zero user: a field that was not sent stays zero
gobDecode(data) == gobDecodeFrom(data, UserInfo, 1)

----------------------------------------------------------------------------
(* The store: bbolt buckets, transactions and cursors *)

BucketNames ==
    {"users_json", "users_gob", "users_binary", "users_binary_names",
     "users_multikv", "users_nested"}

Strategies == {"JSON", "GOB", "Binary", "Binary+Names", "MultiKV", "NestedBucket"}

\* the root bucket each strategy names in tx.Bucket and CreateBucketIfNotExists
BucketOf(s) ==
    CASE s = "JSON" -> "users_json" [] s = "GOB" -> "users_gob"
      [] s = "Binary" -> "users_binary" [] s = "Binary+Names" -> "users_binary_names"
      [] s = "MultiKV" -> "users_multikv" [] s = "NestedBucket" -> "users_nested"

\* a database file that was just created: no bucket
EmptyDB == [b \in BucketNames |-> [exists |-> FALSE, kv |-> << >>]]

RECURSIVE SeekIn(_, _, _, _)
\* the first position in lo..hi whose key is >= key, hi + 1 when there is
\* none: the search of the B+tree
SeekIn(kv, key, lo, hi) ==
    IF lo > hi THEN lo
    ELSE LET mid == (lo + hi) \div 2
         IN  IF BytesLess(kv[mid][1], key) THEN SeekIn(kv, key, mid + 1, hi)
             ELSE SeekIn(kv, key, lo, mid - 1)

\* cursor.Seek(key): the position of the first pair whose key is >= key,
\* Len(kv) + 1 when there is none
Seek(kv, key) == SeekIn(kv, key, 1, Len(kv))

Has(kv, key) == LET i == Seek(kv, key) IN i <= Len(kv) /\ kv[i][1] = key

\* bucket.Get(key) of a key that is there
Get(kv, key) == kv[Seek(kv, key)][2]

\* bucket.Put(key, value): replaces the value of the key or inserts the pair
\* at its place in key order
Put(kv, key, value) ==
    LET i == Seek(kv, key)
    IN  IF i <= Len(kv) /\ kv[i][1] = key THEN [kv EXCEPT ![i] = <<key, value>>]
        ELSE SubSeq(kv, 1, i - 1) \o << <<key, value>> >> \o SubSeq(kv, i, Len(kv))

\* a db.Update that commits what fn did whatever fn returns
Update_NoRollback(store, r) == [err |-> r.err, db |-> r.db]

\* db.Update(fn): commits what fn did when fn returns nil, rolls it back when
\* fn returns an error or panics
Update(store, r) == [err |-> r.err, db |-> IF r.err = "nil" THEN r.db ELSE store]

\* the 8-byte big-endian key of an id
IdKey(id) == BigEndian(8, id)

\* a Setup that calls CreateBucket: the error "bucket already exists" when
\* the root bucket is there
Setup_CreateBucket(s, store) ==
    Update(store, IF store[BucketOf(s)].exists THEN [err |-> "StoreError", db |-> store]
                  ELSE [err |-> "nil", db |-> [store EXCEPT ![BucketOf(s)].exists = TRUE]])

\* CreateBucketIfNotExists of the root bucket, the Setup of all six strategies
Setup(s, store) ==
    Update(store, [err |-> "nil", db |-> [store EXCEPT ![BucketOf(s)].exists = TRUE]])

----------------------------------------------------------------------------
(* 1. JSON: one pair per record, key = id, value = json.Marshal (json.go) *)

\* a call of a method of a nil *bbolt.Bucket (Put, Get, Cursor) panics; the
\* error of json.Marshal is returned before the bucket is used
JSON_Write(store, user) ==
    LET b == store["users_json"]
    IN  Update(store,
            IF jsonUnsupported(user) THEN [err |-> "EncodeError", db |-> store]
            ELSE IF ~b.exists THEN [err |-> "panic", db |-> store]
            ELSE [err |-> "nil",
                  db |-> [store EXCEPT !["users_json"].kv =
                             Put(b.kv, IdKey(user.ID), jsonMarshal(user))]])

RECURSIVE JSON_WriteManyFrom(_, _, _)
JSON_WriteManyFrom(b, users, i) ==
    IF i > Len(users) THEN [err |-> "nil", kv |-> b.kv]
    ELSE IF jsonUnsupported(users[i]) THEN [err |-> "EncodeError", kv |-> b.kv]
    ELSE IF ~b.exists THEN [err |-> "panic", kv |-> b.kv]
    ELSE JSON_WriteManyFrom(
             [b EXCEPT !.kv = Put(@, IdKey(users[i].ID), jsonMarshal(users[i]))], users, i + 1)

JSON_WriteMany(store, users) ==
    LET r == JSON_WriteManyFrom(store["users_json"], users, 1)
    IN  Update(store, [err |-> r.err, db |-> [store EXCEPT !["users_json"].kv = r.kv]])

\* returns &user, the zero user included, also when it returns an error
JSON_Read(store, id) ==
    LET b == store["users_json"]
    IN  IF ~b.exists THEN [err |-> "panic", user |-> << >>]
        ELSE IF ~Has(b.kv, IdKey(id)) THEN [err |-> "NotFound", user |-> <<UserInfo>>]
        ELSE LET r == jsonUnmarshal(Get(b.kv, IdKey(id)))
             IN  [err |-> r.err, user |-> <<r.user>>]

RECURSIVE JSON_ReadManyFrom(_, _, _, _)
JSON_ReadManyFrom(kv, i, count, users) ==
    IF i > Len(kv) \/ Len(users) >= count THEN [err |-> "nil", users |-> users]
    ELSE LET r == jsonUnmarshal(kv[i][2])
         IN  IF r.err # "nil" THEN [err |-> r.err, users |-> users]
             ELSE JSON_ReadManyFrom(kv, i + 1, count, Append(users, r.user))

JSON_ReadMany(store, startId, count) ==
    LET b == store["users_json"]
    IN  IF ~b.exists THEN [err |-> "panic", users |-> << >>]
        ELSE JSON_ReadManyFrom(b.kv, Seek(b.kv, IdKey(startId)), count, << >>)

\* an UpdateField that adds the value to the field (+= for =)
JSON_UpdateField_Adds(store, id, fieldName, value) ==
    LET b == store["users_json"]
        key == IdKey(id)
    IN  Update(store,
            IF ~b.exists THEN [err |-> "panic", db |-> store]
            ELSE IF ~Has(b.kv, key) THEN [err |-> "NotFound", db |-> store]
            ELSE LET r == jsonUnmarshal(Get(b.kv, key))
                 IN  IF r.err # "nil" THEN [err |-> r.err, db |-> store]
                     ELSE IF fieldName \in {"balance", "login_count", "score"}
                             /\ value.type # TypeOf(fieldName)
                          THEN [err |-> "panic", db |-> store]
                     ELSE LET user == IF fieldName \in {"balance", "login_count", "score"}
                                      THEN [r.user EXCEPT ![GoField(fieldName)] = @ + value.v]
                                      ELSE r.user
                          IN  IF jsonUnsupported(user)
                              THEN [err |-> "EncodeError", db |-> store]
                              ELSE [err |-> "nil",
                                    db |-> [store EXCEPT !["users_json"].kv =
                                               Put(b.kv, key, jsonMarshal(user))]])

\* value.(T) with one result panics when the value is of another type
JSON_UpdateField(store, id, fieldName, value) ==
    LET b == store["users_json"]
        key == IdKey(id)
    IN  Update(store,
            IF ~b.exists THEN [err |-> "panic", db |-> store]
            ELSE IF ~Has(b.kv, key) THEN [err |-> "NotFound", db |-> store]
            ELSE LET r == jsonUnmarshal(Get(b.kv, key))
                 IN  IF r.err # "nil" THEN [err |-> r.err, db |-> store]
                     ELSE IF fieldName \in {"balance", "login_count", "score"}
                             /\ value.type # TypeOf(fieldName)
                          THEN [err |-> "panic", db |-> store]
                     ELSE LET user == IF fieldName \in {"balance", "login_count", "score"}
                                      THEN [r.user EXCEPT ![GoField(fieldName)] = value.v]
                                      ELSE r.user
                          IN  IF jsonUnsupported(user)
                              THEN [err |-> "EncodeError", db |-> store]
                              ELSE [err |-> "nil",
                                    db |-> [store EXCEPT !["users_json"].kv =
                                               Put(b.kv, key, jsonMarshal(user))]])

\* what one record adds to the sum: float64(user.LoginCount) is 4 quarters
\* for each login, a field the switch does not name adds nothing
SumTerm(user, fieldName) ==
    CASE fieldName = "balance" -> user.Balance
      [] fieldName = "score" -> user.Score
      [] fieldName = "login_count" -> 4 * user.LoginCount
      [] OTHER -> 0

RECURSIVE JSON_ReadFieldSumFrom(_, _, _, _, _)
JSON_ReadFieldSumFrom(kv, i, fieldName, count, sum) ==
    IF i > Len(kv) \/ i - 1 >= count THEN [err |-> "nil", sum |-> sum]
    ELSE LET r == jsonUnmarshal(kv[i][2])
         IN  IF r.err # "nil" THEN [err |-> r.err, sum |-> sum]
             ELSE JSON_ReadFieldSumFrom(kv, i + 1, fieldName, count,
                                        sum + SumTerm(r.user, fieldName))

JSON_ReadFieldSum(store, fieldName, count) ==
    LET b == store["users_json"]
    IN  IF ~b.exists THEN [err |-> "panic", sum |-> 0]
        ELSE JSON_ReadFieldSumFrom(b.kv, 1, fieldName, count, 0)

----------------------------------------------------------------------------
(* 2. GOB: one pair per record, key = id, value = gob Encode (gob.go) *)

\* a Write copied from the JSON strategy with the bucket name left as it was
GOB_Write_IntoJSON(store, user) ==
    LET b == store["users_json"]
    IN  Update(store,
            IF ~b.exists THEN [err |-> "panic", db |-> store]
            ELSE [err |-> "nil",
                  db |-> [store EXCEPT !["users_json"].kv =
                             Put(b.kv, IdKey(user.ID), gobEncode(user))]])

GOB_Write(store, user) ==
    LET b == store["users_gob"]
    IN  Update(store,
            IF ~b.exists THEN [err |-> "panic", db |-> store]
            ELSE [err |-> "nil",
                  db |-> [store EXCEPT !["users_gob"].kv =
                             Put(b.kv, IdKey(user.ID), gobEncode(user))]])

RECURSIVE GOB_WriteManyFrom(_, _, _)
GOB_WriteManyFrom(b, users, i) ==
    IF i > Len(users) THEN [err |-> "nil", kv |-> b.kv]
    ELSE IF ~b.exists THEN [err |-> "panic", kv |-> b.kv]
    ELSE GOB_WriteManyFrom(
             [b EXCEPT !.kv = Put(@, IdKey(users[i].ID), gobEncode(users[i]))], users, i + 1)

GOB_WriteMany(store, users) ==
    LET r == GOB_WriteManyFrom(store["users_gob"], users, 1)
    IN  Update(store, [err |-> r.err, db |-> [store EXCEPT !["users_gob"].kv = r.kv]])

\* returns &user, the zero user included, also when it returns an error
GOB_Read(store, id) ==
    LET b == store["users_gob"]
    IN  IF ~b.exists THEN [err |-> "panic", user |-> << >>]
        ELSE IF ~Has(b.kv, IdKey(id)) THEN [err |-> "NotFound", user |-> <<UserInfo>>]
        ELSE LET r == gobDecode(Get(b.kv, IdKey(id)))
             IN  [err |-> r.err, user |-> <<r.user>>]

RECURSIVE GOB_ReadManyFrom(_, _, _, _)
GOB_ReadManyFrom(kv, i, count, users) ==
    IF i > Len(kv) \/ Len(users) >= count THEN [err |-> "nil", users |-> users]
    ELSE LET r == gobDecode(kv[i][2])
         IN  IF r.err # "nil" THEN [err |-> r.err, users |-> users]
             ELSE GOB_ReadManyFrom(kv, i + 1, count, Append(users, r.user))

GOB_ReadMany(store, startId, count) ==
    LET b == store["users_gob"]
    IN  IF ~b.exists THEN [err |-> "panic", users |-> << >>]
        ELSE GOB_ReadManyFrom(b.kv, Seek(b.kv, IdKey(startId)), count, << >>)

GOB_UpdateField(store, id, fieldName, value) ==
    LET b == store["users_gob"]
        key == IdKey(id)
    IN  Update(store,
            IF ~b.exists THEN [err |-> "panic", db |-> store]
            ELSE IF ~Has(b.kv, key) THEN [err |-> "NotFound", db |-> store]
            ELSE LET r == gobDecode(Get(b.kv, key))
                 IN  IF r.err # "nil" THEN [err |-> r.err, db |-> store]
                     ELSE IF fieldName \in {"balance", "login_count", "score"}
                             /\ value.type # TypeOf(fieldName)
                          THEN [err |-> "panic", db |-> store]
                     ELSE LET user == IF fieldName \in {"balance", "login_count", "score"}
                                      THEN [r.user EXCEPT ![GoField(fieldName)] = value.v]
                                      ELSE r.user
                          IN  [err |-> "nil",
                               db |-> [store EXCEPT !["users_gob"].kv =
                                          Put(b.kv, key, gobEncode(user))]])

RECURSIVE GOB_ReadFieldSumFrom(_, _, _, _, _)
GOB_ReadFieldSumFrom(kv, i, fieldName, count, sum) ==
    IF i > Len(kv) \/ i - 1 >= count THEN [err |-> "nil", sum |-> sum]
    ELSE LET r == gobDecode(kv[i][2])
         IN  IF r.err # "nil" THEN [err |-> r.err, sum |-> sum]
             ELSE GOB_ReadFieldSumFrom(kv, i + 1, fieldName, count,
                                        sum + SumTerm(r.user, fieldName))

GOB_ReadFieldSum(store, fieldName, count) ==
    LET b == store["users_gob"]
    IN  IF ~b.exists THEN [err |-> "panic", sum |-> 0]
        ELSE GOB_ReadFieldSumFrom(b.kv, 1, fieldName, count, 0)

----------------------------------------------------------------------------
(* 3. Binary: one pair per record, key = id, value = encodeBinary (binary.go) *)

Binary_Write(store, user) ==
    LET b == store["users_binary"]
    IN  Update(store,
            IF ~b.exists THEN [err |-> "panic", db |-> store]
            ELSE [err |-> "nil",
                  db |-> [store EXCEPT !["users_binary"].kv =
                             Put(b.kv, IdKey(user.ID), encodeBinary(user))]])

RECURSIVE Binary_WriteManyFrom(_, _, _)
Binary_WriteManyFrom(b, users, i) ==
    IF i > Len(users) THEN [err |-> "nil", kv |-> b.kv]
    ELSE IF ~b.exists THEN [err |-> "panic", kv |-> b.kv]
    ELSE Binary_WriteManyFrom(
             [b EXCEPT !.kv = Put(@, IdKey(users[i].ID), encodeBinary(users[i]))], users, i + 1)

Binary_WriteMany(store, users) ==
    LET r == Binary_WriteManyFrom(store["users_binary"], users, 1)
    IN  Update(store, [err |-> r.err, db |-> [store EXCEPT !["users_binary"].kv = r.kv]])

\* user is a nil pointer until decodeBinary returns one
Binary_Read(store, id) ==
    LET b == store["users_binary"]
    IN  IF ~b.exists THEN [err |-> "panic", user |-> << >>]
        ELSE IF ~Has(b.kv, IdKey(id)) THEN [err |-> "NotFound", user |-> << >>]
        ELSE decodeBinary(Get(b.kv, IdKey(id)))

RECURSIVE Binary_ReadManyFrom(_, _, _, _)
Binary_ReadManyFrom(kv, i, count, users) ==
    IF i > Len(kv) \/ Len(users) >= count THEN [err |-> "nil", users |-> users]
    ELSE LET r == decodeBinary(kv[i][2])
         IN  IF r.err # "nil" THEN [err |-> r.err, users |-> users]
             ELSE Binary_ReadManyFrom(kv, i + 1, count, Append(users, r.user[1]))

Binary_ReadMany(store, startId, count) ==
    LET b == store["users_binary"]
    IN  IF ~b.exists THEN [err |-> "panic", users |-> << >>]
        ELSE Binary_ReadManyFrom(b.kv, Seek(b.kv, IdKey(startId)), count, << >>)

Binary_UpdateField(store, id, fieldName, value) ==
    LET b == store["users_binary"]
        key == IdKey(id)
    IN  Update(store,
            IF ~b.exists THEN [err |-> "panic", db |-> store]
            ELSE IF ~Has(b.kv, key) THEN [err |-> "NotFound", db |-> store]
            ELSE LET r == decodeBinary(Get(b.kv, key))
                 IN  IF r.err # "nil" THEN [err |-> r.err, db |-> store]
                     ELSE IF fieldName \in {"balance", "login_count", "score"}
                             /\ value.type # TypeOf(fieldName)
                          THEN [err |-> "panic", db |-> store]
                     ELSE LET user == IF fieldName \in {"balance", "login_count", "score"}
                                      THEN [r.user[1] EXCEPT ![GoField(fieldName)] = value.v]
                                      ELSE r.user[1]
                          IN  [err |-> "nil",
                               db |-> [store EXCEPT !["users_binary"].kv =
                                          Put(b.kv, key, encodeBinary(user))]])

RECURSIVE Binary_ReadFieldSumFrom(_, _, _, _, _)
Binary_ReadFieldSumFrom(kv, i, fieldName, count, sum) ==
    IF i > Len(kv) \/ i - 1 >= count THEN [err |-> "nil", sum |-> sum]
    ELSE LET r == decodeBinary(kv[i][2])
         IN  IF r.err # "nil" THEN [err |-> r.err, sum |-> sum]
             ELSE Binary_ReadFieldSumFrom(kv, i + 1, fieldName, count,
                                          sum + SumTerm(r.user[1], fieldName))

Binary_ReadFieldSum(store, fieldName, count) ==
    LET b == store["users_binary"]
    IN  IF ~b.exists THEN [err |-> "panic", sum |-> 0]
        ELSE Binary_ReadFieldSumFrom(b.kv, 1, fieldName, count, 0)

----------------------------------------------------------------------------
(* 4. Binary+Names: one pair per record, key = id, value =                 *)
(* encodeBinaryWithNames (binary_with_names.go)                            *)

BinaryWithNames_Write(store, user) ==
    LET b == store["users_binary_names"]
        e == encodeBinaryWithNames(user)
    IN  Update(store,
            IF ~b.exists THEN [err |-> "StoreError", db |-> store]
            ELSE IF e.err # "nil" THEN [err |-> e.err, db |-> store]
            ELSE [err |-> "nil",
                  db |-> [store EXCEPT !["users_binary_names"].kv =
                             Put(b.kv, IdKey(user.ID), e.data)]])

RECURSIVE BinaryWithNames_WriteManyFrom(_, _, _)
\* no check of the bucket here: the Put of the first user panics on a nil one
BinaryWithNames_WriteManyFrom(b, users, i) ==
    IF i > Len(users) THEN [err |-> "nil", kv |-> b.kv]
    ELSE LET e == encodeBinaryWithNames(users[i])
         IN  IF e.err # "nil" THEN [err |-> e.err, kv |-> b.kv]
             ELSE IF ~b.exists THEN [err |-> "panic", kv |-> b.kv]
             ELSE BinaryWithNames_WriteManyFrom(
                      [b EXCEPT !.kv = Put(@, IdKey(users[i].ID), e.data)], users, i + 1)

BinaryWithNames_WriteMany(store, users) ==
    LET r == BinaryWithNames_WriteManyFrom(store["users_binary_names"], users, 1)
    IN  Update(store, [err |-> r.err, db |-> [store EXCEPT !["users_binary_names"].kv = r.kv]])

BinaryWithNames_Read(store, id) ==
    LET b == store["users_binary_names"]
    IN  IF ~b.exists THEN [err |-> "StoreError", user |-> << >>]
        ELSE IF ~Has(b.kv, IdKey(id)) THEN [err |-> "NotFound", user |-> << >>]
        ELSE decodeBinaryWithNames(Get(b.kv, IdKey(id)))

RECURSIVE BinaryWithNames_ReadManyFrom(_, _, _, _)
BinaryWithNames_ReadManyFrom(kv, i, count, users) ==
    IF i > Len(kv) \/ Len(users) >= count THEN [err |-> "nil", users |-> users]
    ELSE LET r == decodeBinaryWithNames(kv[i][2])
         IN  IF r.err # "nil" THEN [err |-> r.err, users |-> users]
             ELSE BinaryWithNames_ReadManyFrom(kv, i + 1, count, Append(users, r.user[1]))

BinaryWithNames_ReadMany(store, startId, count) ==
    LET b == store["users_binary_names"]
    IN  IF ~b.exists THEN [err |-> "panic", users |-> << >>]
        ELSE BinaryWithNames_ReadManyFrom(b.kv, Seek(b.kv, IdKey(startId)), count, << >>)

\* every field but id is assignable, each after a checked type assertion
BinaryWithNames_UpdateField(store, id, fieldName, value) ==
    LET b == store["users_binary_names"]
        key == IdKey(id)
    IN  Update(store,
            IF ~b.exists THEN [err |-> "StoreError", db |-> store]
            ELSE IF ~Has(b.kv, key) THEN [err |-> "NotFound", db |-> store]
            ELSE LET r == decodeBinaryWithNames(Get(b.kv, key))
                 IN  IF r.err # "nil" THEN [err |-> r.err, db |-> store]
                     ELSE IF GoField(fieldName) = "" \/ fieldName = "id"
                          THEN [err |-> "UnsupportedField", db |-> store]
                     ELSE IF value.type # TypeOf(fieldName)
                          THEN [err |-> "TypeMismatch", db |-> store]
                     ELSE LET e == encodeBinaryWithNames(
                                       [r.user[1] EXCEPT ![GoField(fieldName)] = value.v])
                          IN  IF e.err # "nil" THEN [err |-> e.err, db |-> store]
                              ELSE [err |-> "nil",
                                    db |-> [store EXCEPT !["users_binary_names"].kv =
                                               Put(b.kv, key, e.data)]])

RECURSIVE BinaryWithNames_ReadFieldSumFrom(_, _, _, _, _)
\* the field name is looked at once a record was decoded, not before
BinaryWithNames_ReadFieldSumFrom(kv, i, fieldName, count, sum) ==
    IF i > Len(kv) \/ i - 1 >= count THEN [err |-> "nil", sum |-> sum]
    ELSE LET r == decodeBinaryWithNames(kv[i][2])
         IN  IF r.err # "nil" THEN [err |-> r.err, sum |-> sum]
             ELSE IF fieldName \notin {"balance", "score", "login_count"}
                  THEN [err |-> "UnsupportedField", sum |-> sum]
             ELSE BinaryWithNames_ReadFieldSumFrom(kv, i + 1, fieldName, count,
                                                   sum + SumTerm(r.user[1], fieldName))

BinaryWithNames_ReadFieldSum(store, fieldName, count) ==
    LET b == store["users_binary_names"]
    IN  IF ~b.exists THEN [err |-> "StoreError", sum |-> 0]
        ELSE BinaryWithNames_ReadFieldSumFrom(b.kv, 1, fieldName, count, 0)

----------------------------------------------------------------------------
(* 5. MultiKV: one pair per field, key = id ++ field name (multi_kv.go) *)

\* uint64(f) and uint32(f) of a float f >= 0 or in (-1, 0): the fraction is
\* dropped
Uint(f) == CASE f >= 0 -> f \div 4 [] f > -4 -> 0

MultiKV_makeKey(id, field) == IdKey(id) \o Bytes[field]

\* the value writeUserFields puts under the key of a field
MultiKV_fieldValue(user, name) ==
    LET t == TypeOf(name)
        v == user[GoField(name)]
    IN  CASE t \in {"int64", "int32"} -> FormatInt(v)
          [] t = "string" -> v
          [] t = "float32" -> LittleEndian(4, Uint(v))
          [] t = "float64" -> LittleEndian(8, Uint(v))
          [] t = "bool" -> IF v THEN Bytes.true ELSE Bytes.false

\* decodeField(user, field, data), user a pointer that may be nil; a field
\* the switch does not name touches nothing
MultiKV_decodeField(user, field, data) ==
    LET name == NameOf(field)
        t == TypeOf(name)
    IN  IF name = "" THEN [panic |-> FALSE, user |-> user]
        ELSE IF user = << >> THEN [panic |-> TRUE, user |-> user]
        ELSE IF t \in {"float32", "float64"} /\ Len(data) < WidthOf(t)
             THEN [panic |-> TRUE, user |-> user]
        ELSE [panic |-> FALSE,
              user |-> <<[user[1] EXCEPT ![GoField(name)] =
                            CASE t \in {"int64", "int32"} -> ParseInt(data)
                              [] t = "string" -> data
                              [] t \in {"float32", "float64"} ->
                                    4 * LittleEndianUint(SubSeq(data, 1, WidthOf(t)))
                              [] t = "bool" -> data = Bytes.true]>>]

RECURSIVE MultiKV_writeUserFieldsFrom(_, _, _)
MultiKV_writeUserFieldsFrom(kv, user, i) ==
    IF i > Len(FieldNames) THEN kv
    ELSE MultiKV_writeUserFieldsFrom(
             Put(kv, MultiKV_makeKey(user.ID, FieldNames[i]),
                 MultiKV_fieldValue(user, FieldNames[i])),
             user, i + 1)

MultiKV_writeUserFields(b, user) ==
    IF ~b.exists THEN [err |-> "panic", kv |-> b.kv]
    ELSE [err |-> "nil", kv |-> MultiKV_writeUserFieldsFrom(b.kv, user, 1)]

MultiKV_Write(store, user) ==
    LET r == MultiKV_writeUserFields(store["users_multikv"], user)
    IN  Update(store, [err |-> r.err, db |-> [store EXCEPT !["users_multikv"].kv = r.kv]])

RECURSIVE MultiKV_WriteManyFrom(_, _, _)
MultiKV_WriteManyFrom(b, users, i) ==
    IF i > Len(users) THEN [err |-> "nil", kv |-> b.kv]
    ELSE LET r == MultiKV_writeUserFields(b, users[i])
         IN  IF r.err # "nil" THEN r
             ELSE MultiKV_WriteManyFrom([b EXCEPT !.kv = r.kv], users, i + 1)

MultiKV_WriteMany(store, users) ==
    LET r == MultiKV_WriteManyFrom(store["users_multikv"], users, 1)
    IN  Update(store, [err |-> r.err, db |-> [store EXCEPT !["users_multikv"].kv = r.kv]])

RECURSIVE MultiKV_ReadFrom(_, _, _, _)
MultiKV_ReadFrom(kv, i, prefix, user) ==
    IF i > Len(kv) \/ ~IsPrefix(prefix, kv[i][1]) THEN [err |-> "nil", user |-> user]
    ELSE LET r == MultiKV_decodeField(user, SubSeq(kv[i][1], 9, Len(kv[i][1])), kv[i][2])
         IN  IF r.panic THEN [err |-> "panic", user |-> << >>]
             ELSE MultiKV_ReadFrom(kv, i + 1, prefix, r.user)

\* the callback returns nil whether or not a key has the prefix
MultiKV_Read(store, id) ==
    LET b == store["users_multikv"]
    IN  IF ~b.exists THEN [err |-> "panic", user |-> << >>]
        ELSE MultiKV_ReadFrom(b.kv, Seek(b.kv, IdKey(id)), IdKey(id), <<UserInfo>>)

RECURSIVE MultiKV_ReadManyFrom(_, _, _, _, _, _, _)
\* currentId starts at 0 and currentUser at nil
MultiKV_ReadManyFrom(kv, i, startId, count, users, currentId, currentUser) ==
    IF i > Len(kv) \/ Len(users) >= count
    THEN [err |-> "nil",
          users |-> IF currentUser # << >> /\ Len(users) < count
                    THEN Append(users, currentUser[1]) ELSE users]
    ELSE LET k == kv[i][1]
             id == BigEndianInt(SubSeq(k, 1, 8))
             fresh == id # currentId
             users1 == IF fresh /\ currentUser # << >>
                       THEN Append(users, currentUser[1]) ELSE users
             r == MultiKV_decodeField(IF fresh THEN <<UserInfo>> ELSE currentUser,
                                      SubSeq(k, 9, Len(k)), kv[i][2])
         IN  IF Len(k) < 8 \/ id < startId
             THEN MultiKV_ReadManyFrom(kv, i + 1, startId, count, users, currentId, currentUser)
             ELSE IF fresh /\ currentUser # << >> /\ Len(users1) >= count
             THEN [err |-> "nil", users |-> users1]
             ELSE IF r.panic THEN [err |-> "panic", users |-> << >>]
             ELSE MultiKV_ReadManyFrom(kv, i + 1, startId, count, users1, id, r.user)

MultiKV_ReadMany(store, startId, count) ==
    LET b == store["users_multikv"]
    IN  IF ~b.exists THEN [err |-> "panic", users |-> << >>]
        ELSE MultiKV_ReadManyFrom(b.kv, Seek(b.kv, IdKey(startId)), startId, count,
                                  << >>, 0, << >>)

\* one Put of the key of the field, no look at what is stored; a field name
\* the switch does not name returns nil
MultiKV_UpdateField(store, id, fieldName, value) ==
    LET b == store["users_multikv"]
    IN  Update(store,
            IF fieldName \notin {"balance", "login_count", "score"}
            THEN [err |-> "nil", db |-> store]
            ELSE IF value.type # TypeOf(fieldName) \/ ~b.exists
            THEN [err |-> "panic", db |-> store]
            ELSE [err |-> "nil",
                  db |-> [store EXCEPT !["users_multikv"].kv =
                             Put(b.kv, MultiKV_makeKey(id, fieldName),
                                 IF fieldName = "login_count" THEN FormatInt(value.v)
                                 ELSE LittleEndian(8, Uint(value.v)))]])

RECURSIVE MultiKV_ReadFieldSumFrom(_, _, _, _, _, _, _)
MultiKV_ReadFieldSumFrom(kv, i, fieldName, count, processed, seenIDs, sum) ==
    IF i > Len(kv) \/ processed >= count THEN [err |-> "nil", sum |-> sum]
    ELSE LET k == kv[i][1]
             v == kv[i][2]
             id == BigEndianInt(SubSeq(k, 1, 8))
         IN  IF ~IsSuffix(Bytes[fieldName], k)
             THEN MultiKV_ReadFieldSumFrom(kv, i + 1, fieldName, count, processed, seenIDs, sum)
             ELSE IF Len(k) < 8 THEN [err |-> "panic", sum |-> 0]
             ELSE IF id \in seenIDs
             THEN MultiKV_ReadFieldSumFrom(kv, i + 1, fieldName, count, processed, seenIDs, sum)
             ELSE IF fieldName \in {"balance", "score"} /\ Len(v) < 8
             THEN [err |-> "panic", sum |-> 0]
             ELSE MultiKV_ReadFieldSumFrom(kv, i + 1, fieldName, count, processed + 1,
                      seenIDs \cup {id},
                      sum + CASE fieldName \in {"balance", "score"} ->
                                     4 * LittleEndianUint(SubSeq(v, 1, 8))
                              [] fieldName = "login_count" -> 4 * ParseInt(v)
                              [] OTHER -> 0)

MultiKV_ReadFieldSum(store, fieldName, count) ==
    LET b == store["users_multikv"]
    IN  IF ~b.exists THEN [err |-> "panic", sum |-> 0]
        ELSE MultiKV_ReadFieldSumFrom(b.kv, 1, fieldName, count, 0, {}, 0)

----------------------------------------------------------------------------
(* 6. NestedBucket: one sub-bucket per record, key = id, holding one pair   *)
(* per field, key = field name (NestedBucketStrategy)                      *)

NestedBucket_fieldValue(user, name) ==
    LET t == TypeOf(name)
        v == user[GoField(name)]
    IN  CASE t \in {"int64", "int32"} -> FormatInt(v)
          [] t = "string" -> v
          [] t = "float32" -> LittleEndian(4, Uint(v))
          [] t = "float64" -> LittleEndian(8, Uint(v))
          [] t = "bool" -> IF v THEN Bytes.true ELSE Bytes.false

NestedBucket_decodeField(user, field, data) ==
    LET name == NameOf(field)
        t == TypeOf(name)
    IN  IF name = "" THEN [panic |-> FALSE, user |-> user]
        ELSE IF t \in {"float32", "float64"} /\ Len(data) < WidthOf(t)
             THEN [panic |-> TRUE, user |-> user]
        ELSE [panic |-> FALSE,
              user |-> [user EXCEPT ![GoField(name)] =
                           CASE t \in {"int64", "int32"} -> ParseInt(data)
                             [] t = "string" -> data
                             [] t \in {"float32", "float64"} ->
                                   4 * LittleEndianUint(SubSeq(data, 1, WidthOf(t)))
                             [] t = "bool" -> data = Bytes.true]]

RECURSIVE NestedBucket_putFieldsFrom(_, _, _)
NestedBucket_putFieldsFrom(userBucket, user, i) ==
    IF i > Len(FieldNames) THEN userBucket
    ELSE NestedBucket_putFieldsFrom(
             Put(userBucket, Bytes[FieldNames[i]], NestedBucket_fieldValue(user, FieldNames[i])),
             user, i + 1)

\* CreateBucketIfNotExists(userKey), then fifteen Puts into the sub-bucket
NestedBucket_writeUserFields(rootBucket, user) ==
    LET userKey == IdKey(user.ID)
        userBucket == IF Has(rootBucket.kv, userKey) THEN Get(rootBucket.kv, userKey) ELSE << >>
    IN  IF ~rootBucket.exists THEN [err |-> "panic", kv |-> rootBucket.kv]
        ELSE [err |-> "nil",
              kv |-> Put(rootBucket.kv, userKey, NestedBucket_putFieldsFrom(userBucket, user, 1))]

NestedBucket_Write(store, user) ==
    LET r == NestedBucket_writeUserFields(store["users_nested"], user)
    IN  Update(store, [err |-> r.err, db |-> [store EXCEPT !["users_nested"].kv = r.kv]])

RECURSIVE NestedBucket_WriteManyFrom(_, _, _)
NestedBucket_WriteManyFrom(b, users, i) ==
    IF i > Len(users) THEN [err |-> "nil", kv |-> b.kv]
    ELSE LET r == NestedBucket_writeUserFields(b, users[i])
         IN  IF r.err # "nil" THEN r
             ELSE NestedBucket_WriteManyFrom([b EXCEPT !.kv = r.kv], users, i + 1)

NestedBucket_WriteMany(store, users) ==
    LET r == NestedBucket_WriteManyFrom(store["users_nested"], users, 1)
    IN  Update(store, [err |-> r.err, db |-> [store EXCEPT !["users_nested"].kv = r.kv]])

RECURSIVE NestedBucket_decodeFrom(_, _, _)
\* the cursor loop over one sub-bucket
NestedBucket_decodeFrom(userBucket, i, user) ==
    IF i > Len(userBucket) THEN [panic |-> FALSE, user |-> user]
    ELSE LET r == NestedBucket_decodeField(user, userBucket[i][1], userBucket[i][2])
         IN  IF r.panic THEN r ELSE NestedBucket_decodeFrom(userBucket, i + 1, r.user)

\* returns the pointer to a zero user next to the error when the id is absent
NestedBucket_Read(store, id) ==
    LET root == store["users_nested"]
    IN  IF ~root.exists THEN [err |-> "panic", user |-> << >>]
        ELSE IF ~Has(root.kv, IdKey(id)) THEN [err |-> "NotFound", user |-> <<UserInfo>>]
        ELSE LET r == NestedBucket_decodeFrom(Get(root.kv, IdKey(id)), 1, UserInfo)
             IN  IF r.panic THEN [err |-> "panic", user |-> << >>]
                 ELSE [err |-> "nil", user |-> <<r.user>>]

RECURSIVE NestedBucket_ReadManyFrom(_, _, _, _)
NestedBucket_ReadManyFrom(kv, i, count, users) ==
    IF i > Len(kv) \/ Len(users) >= count THEN [err |-> "nil", users |-> users]
    ELSE LET r == NestedBucket_decodeFrom(kv[i][2], 1, UserInfo)
         IN  IF r.panic THEN [err |-> "panic", users |-> << >>]
             ELSE NestedBucket_ReadManyFrom(kv, i + 1, count, Append(users, r.user))

NestedBucket_ReadMany(store, startId, count) ==
    LET root == store["users_nested"]
    IN  IF ~root.exists THEN [err |-> "panic", users |-> << >>]
        ELSE NestedBucket_ReadManyFrom(root.kv, Seek(root.kv, IdKey(startId)), count, << >>)

NestedBucket_UpdateField(store, id, fieldName, value) ==
    LET rootBucket == store["users_nested"]
        userKey == IdKey(id)
    IN  Update(store,
            IF ~rootBucket.exists THEN [err |-> "panic", db |-> store]
            ELSE IF ~Has(rootBucket.kv, userKey) THEN [err |-> "NotFound", db |-> store]
            ELSE IF fieldName \notin {"balance", "login_count", "score"}
            THEN [err |-> "nil", db |-> store]
            ELSE IF value.type # TypeOf(fieldName) THEN [err |-> "panic", db |-> store]
            ELSE [err |-> "nil",
                  db |-> [store EXCEPT !["users_nested"].kv =
                             Put(rootBucket.kv, userKey,
                                 Put(Get(rootBucket.kv, userKey), Bytes[fieldName],
                                     IF fieldName = "login_count" THEN FormatInt(value.v)
                                     ELSE LittleEndian(8, Uint(value.v))))]])

RECURSIVE NestedBucket_ReadFieldSumFrom(_, _, _, _, _)
NestedBucket_ReadFieldSumFrom(kv, i, fieldName, count, sum) ==
    IF i > Len(kv) \/ i - 1 >= count THEN [err |-> "nil", sum |-> sum]
    ELSE LET userBucket == kv[i][2]
             found == Has(userBucket, Bytes[fieldName])
             data == Get(userBucket, Bytes[fieldName])
         IN  IF found /\ fieldName \in {"balance", "score"} /\ Len(data) < 8
             THEN [err |-> "panic", sum |-> 0]
             ELSE NestedBucket_ReadFieldSumFrom(kv, i + 1, fieldName, count,
                      sum + IF ~found THEN 0
                            ELSE CASE fieldName \in {"balance", "score"} ->
                                        4 * LittleEndianUint(SubSeq(data, 1, 8))
                                   [] fieldName = "login_count" -> 4 * ParseInt(data)
                                   [] OTHER -> 0)

NestedBucket_ReadFieldSum(store, fieldName, count) ==
    LET rootBucket == store["users_nested"]
    IN  IF ~rootBucket.exists THEN [err |-> "panic", sum |-> 0]
        ELSE NestedBucket_ReadFieldSumFrom(rootBucket.kv, 1, fieldName, count, 0)

----------------------------------------------------------------------------
(* The StorageStrategy interface: the method of the strategy in use *)

Write(s, store, user) ==
    CASE s = "JSON" -> JSON_Write(store, user)
      [] s = "GOB" -> GOB_Write(store, user)
      [] s = "Binary" -> Binary_Write(store, user)
      [] s = "Binary+Names" -> BinaryWithNames_Write(store, user)
      [] s = "MultiKV" -> MultiKV_Write(store, user)
      [] s = "NestedBucket" -> NestedBucket_Write(store, user)

WriteMany(s, store, users) ==
    CASE s = "JSON" -> JSON_WriteMany(store, users)
      [] s = "GOB" -> GOB_WriteMany(store, users)
      [] s = "Binary" -> Binary_WriteMany(store, users)
      [] s = "Binary+Names" -> BinaryWithNames_WriteMany(store, users)
      [] s = "MultiKV" -> MultiKV_WriteMany(store, users)
      [] s = "NestedBucket" -> NestedBucket_WriteMany(store, users)

Read(s, store, id) ==
    CASE s = "JSON" -> JSON_Read(store, id)
      [] s = "GOB" -> GOB_Read(store, id)
      [] s = "Binary" -> Binary_Read(store, id)
      [] s = "Binary+Names" -> BinaryWithNames_Read(store, id)
      [] s = "MultiKV" -> MultiKV_Read(store, id)
      [] s = "NestedBucket" -> NestedBucket_Read(store, id)

ReadMany(s, store, startId, count) ==
    CASE s = "JSON" -> JSON_ReadMany(store, startId, count)
      [] s = "GOB" -> GOB_ReadMany(store, startId, count)
      [] s = "Binary" -> Binary_ReadMany(store, startId, count)
      [] s = "Binary+Names" -> BinaryWithNames_ReadMany(store, startId, count)
      [] s = "MultiKV" -> MultiKV_ReadMany(store, startId, count)
      [] s = "NestedBucket" -> NestedBucket_ReadMany(store, startId, count)

UpdateField(s, store, id, fieldName, value) ==
    CASE s = "JSON" -> JSON_UpdateField(store, id, fieldName, value)
      [] s = "GOB" -> GOB_UpdateField(store, id, fieldName, value)
      [] s = "Binary" -> Binary_UpdateField(store, id, fieldName, value)
      [] s = "Binary+Names" -> BinaryWithNames_UpdateField(store, id, fieldName, value)
      [] s = "MultiKV" -> MultiKV_UpdateField(store, id, fieldName, value)
      [] s = "NestedBucket" -> NestedBucket_UpdateField(store, id, fieldName, value)

ReadFieldSum(s, store, fieldName, count) ==
    CASE s = "JSON" -> JSON_ReadFieldSum(store, fieldName, count)
      [] s = "GOB" -> GOB_ReadFieldSum(store, fieldName, count)
      [] s = "Binary" -> Binary_ReadFieldSum(store, fieldName, count)
      [] s = "Binary+Names" -> BinaryWithNames_ReadFieldSum(store, fieldName, count)
      [] s = "MultiKV" -> MultiKV_ReadFieldSum(store, fieldName, count)
      [] s = "NestedBucket" -> NestedBucket_ReadFieldSum(store, fieldName, count)

----------------------------------------------------------------------------
(* The calls of a trial: one strategy on one database file *)

Ids == 0..MaxId

Counts == 0..MaxCount

Text(c) == [i \in 1..MaxText |-> c]

\* balances 10.5, 20.25, 0 and 100 as quarters
GenBalance(id) == CASE id = 0 -> 42 [] id = 1 -> 81 [] id = 2 -> 0 [] OTHER -> 400

\* the user of generateUser(id), its texts shortened.  The balances of ids 0
\* and 1 and the score of id 0 hold fractions; every other float is a whole
\* number
GenUser(id) ==
    [ID |-> id, Username |-> Append(Text(117), 48 + id), Email |-> Text(101),
     FirstName |-> Text(102), LastName |-> Text(108), Age |-> 18 + id,
     Height |-> 600, Weight |-> 200, Balance |-> GenBalance(id), IsActive |-> TRUE,
     CreatedAt |-> 1000, UpdatedAt |-> 1001, LoginCount |-> id + 1,
     Score |-> IF id = 0 THEN 81 ELSE 80, Description |-> Text(100)]

\* a user that is zero but for its id: empty texts, zero numbers
ZeroUser(id) == [UserInfo EXCEPT !.ID = id]

\* the users the calls write: the generated one of each id, and the zero one
\* of the last id
Users == {GenUser(id) : id \in Ids} \cup {ZeroUser(MaxId)}

\* the users in the order the driver hands them to WriteAll, the zero user
\* last: a second record of the last id
Roster == [i \in 1..(MaxId + 2) |-> IF i <= MaxId + 1 THEN GenUser(i - 1) ELSE ZeroUser(MaxId)]

\* the slices WriteMany is called with: the runs of at most MaxBatch users of
\* the roster, the empty one included
Batches ==
    {SubSeq(Roster, p[1], p[2]) :
        p \in {q \in (1..Len(Roster)) \X (0..Len(Roster)) :
                  q[2] >= q[1] - 1 /\ q[2] - q[1] < MaxBatch}}

\* the (fieldName, value) pairs of the UpdateField calls: the three fields
\* the benchmark updates, two values of the wrong type, and two names
\* outside the three
UpdateArgs ==
    {<<"balance", [type |-> "float64", v |-> 398]>>,
     <<"score", [type |-> "float64", v |-> 398]>>,
     <<"login_count", [type |-> "int32", v |-> 5]>>,
     <<"balance", [type |-> "int32", v |-> 5]>>,
     <<"login_count", [type |-> "float64", v |-> 398]>>,
     <<"id", [type |-> "int64", v |-> 9]>>,
     <<"nosuch", [type |-> "float64", v |-> 398]>>}

SumFields == {"balance", "login_count", "username", "is_active"}

NoUser == [id \in Ids |-> << >>]

Init ==
    /\ db = EmptyDB
    /\ strategy \in Strategies
    /\ last = [op |-> "none"]
    /\ written = NoUser
    /\ nUpdates = 0

CallSetup ==
    LET r == Setup(strategy, db)
    IN  /\ db' = r.db
        /\ last' = [op |-> "Setup", err |-> r.err]
        /\ UNCHANGED <<strategy, written, nUpdates>>

CallWrite ==
    \E user \in Users :
        LET r == Write(strategy, db, user)
        IN  /\ db' = r.db
            /\ last' = [op |-> "Write", user |-> user, err |-> r.err]
            /\ written' = IF r.err = "nil" THEN [written EXCEPT ![user.ID] = <<user>>]
                          ELSE written
            /\ UNCHANGED <<strategy, nUpdates>>

\* the users of a successful WriteMany, a later one of an id over an earlier
LastOf(w, users) ==
    [id \in Ids |->
        IF \E i \in 1..Len(users) : users[i].ID = id
        THEN <<users[CHOOSE i \in 1..Len(users) :
                        /\ users[i].ID = id
                        /\ \A j \in (i + 1)..Len(users) : users[j].ID # id]>>
        ELSE w[id]]

CallWriteMany ==
    \E users \in Batches :
        LET r == WriteMany(strategy, db, users)
        IN  /\ db' = r.db
            /\ last' = [op |-> "WriteMany", users |-> users, err |-> r.err]
            /\ written' = IF r.err = "nil" THEN LastOf(written, users) ELSE written
            /\ UNCHANGED <<strategy, nUpdates>>

CallRead ==
    \E id \in Ids :
        LET r == Read(strategy, db, id)
        IN  /\ last' = [op |-> "Read", id |-> id, err |-> r.err, user |-> r.user]
            /\ UNCHANGED <<db, strategy, written, nUpdates>>

CallReadMany ==
    \E startId \in Ids, count \in Counts :
        LET r == ReadMany(strategy, db, startId, count)
        IN  /\ last' = [op |-> "ReadMany", startId |-> startId, count |-> count,
                        err |-> r.err, users |-> r.users]
            /\ UNCHANGED <<db, strategy, written, nUpdates>>

\* at most MaxUpdates calls that change the store
CallUpdateField ==
    \E id \in Ids, a \in UpdateArgs :
        LET r == UpdateField(strategy, db, id, a[1], a[2])
        IN  /\ r.db = db \/ nUpdates < MaxUpdates
            /\ db' = r.db
            /\ nUpdates' = IF r.db = db THEN nUpdates ELSE nUpdates + 1
            /\ last' = [op |-> "UpdateField", id |-> id, fieldName |-> a[1],
                        value |-> a[2], err |-> r.err]
            /\ UNCHANGED <<strategy, written>>

CallReadFieldSum ==
    \E fieldName \in SumFields, count \in Counts :
        LET r == ReadFieldSum(strategy, db, fieldName, count)
        IN  /\ last' = [op |-> "ReadFieldSum", fieldName |-> fieldName, count |-> count,
                        err |-> r.err, sum |-> r.sum]
            /\ UNCHANGED <<db, strategy, written, nUpdates>>

Next ==
    \/ CallSetup
    \/ CallWrite
    \/ CallWriteMany
    \/ CallRead
    \/ CallReadMany
    \/ CallUpdateField
    \/ CallReadFieldSum

Spec == Init /\ [][Next]_vars

----------------------------------------------------------------------------
(* The contract of section 4.1, stated over the calls                       *)

\* the three fields every layout updates
Updatable == {"balance", "login_count", "score"}

\* Setup has run: the root bucket of the layout is there
Ready == db[BucketOf(strategy)].exists

\* some pair of the root bucket belongs to the id
StoredIn(s, store, id) ==
    LET kv == store[BucketOf(s)].kv
    IN  IF s = "MultiKV" THEN \E i \in 1..Len(kv) : IsPrefix(IdKey(id), kv[i][1])
        ELSE Has(kv, IdKey(id))

\* the number of ids written so far
NWritten == Cardinality({id \in Ids : written[id] # << >>})

\* the written ids are 0..N-1 and no UpdateField has changed the store
Populated == nUpdates = 0 /\ \A id \in Ids : written[id] # << >> <=> id < NWritten

\* C1: in every layout, once Setup has run, a Read of an id that was never
\* written returns a NotFound error
ReadMissingIsNotFound ==
    (last.op = "Read" /\ Ready /\ written[last.id] = << >>) => last.err = "NotFound"

\* C2: in every layout, UpdateField of one of the three fields, with a value
\* of the field's type, on an id that is not stored returns NotFound and
\* leaves the store as it was
UpdateMissingIsNotFound ==
    [][(/\ last'.op = "UpdateField"
        /\ Ready
        /\ last'.fieldName \in Updatable
        /\ last'.value.type = TypeOf(last'.fieldName)
        /\ ~StoredIn(strategy, db, last'.id))
       => (last'.err = "NotFound" /\ db' = db)]_vars

\* C3: in every layout, on a store populated with the ids 0..N-1, ReadMany(k, c)
\* with k < N returns without error the min(c, N-k) written records of the ids
\* k, k+1, ..., in that order and field for field
ReadManyReturnsTheRange ==
    (last.op = "ReadMany" /\ Populated /\ last.startId < NWritten)
    => /\ last.err = "nil"
       /\ last.users = [i \in 1..Min(last.count, NWritten - last.startId) |->
                           written[last.startId + i - 1][1]]

\* a result of Read or ReadMany with field f of the records of one id blanked
Blank(u, f) == [u EXCEPT ![GoField(f)] = UserInfo[GoField(f)]]

ReadBut(s, store, i, id, f) ==
    LET r == Read(s, store, i)
    IN  IF i = id THEN [r EXCEPT !.user = [j \in 1..Len(r.user) |-> Blank(r.user[j], f)]]
        ELSE r

ReadManyBut(s, store, k, c, id, f) ==
    LET r == ReadMany(s, store, k, c)
    IN  [r EXCEPT !.users = [j \in 1..Len(r.users) |->
                                IF r.users[j].ID = id THEN Blank(r.users[j], f)
                                ELSE r.users[j]]]

\* C5: in every layout, a successful UpdateField(id, f, v) of one of the three
\* fields changes nothing that Read and ReadMany show but field f of record id
UpdateChangesOneField ==
    [][(last'.op = "UpdateField" /\ last'.err = "nil" /\ last'.fieldName \in Updatable)
       => /\ \A i \in Ids :
                ReadBut(strategy, db', i, last'.id, last'.fieldName)
                    = ReadBut(strategy, db, i, last'.id, last'.fieldName)
          /\ \A k \in Ids, c \in Counts :
                ReadManyBut(strategy, db', k, c, last'.id, last'.fieldName)
                    = ReadManyBut(strategy, db, k, c, last'.id, last'.fieldName)]_vars

\* C6: in every layout, a successful UpdateField(id, f, v) on a written id
\* followed by Read(id) shows field f equal to v, fraction included
ReadShowsTheUpdate ==
    [][(/\ last.op = "UpdateField" /\ last.err = "nil"
        /\ last.fieldName \in Updatable
        /\ written[last.id] # << >>
        /\ last'.op = "Read" /\ last'.id = last.id)
       => (last'.err = "nil" /\ last'.user[1][GoField(last.fieldName)] = last.value.v)]_vars

\* C7: in every layout, UpdateField on a stored id with a value of another
\* type than the field's returns a TypeMismatch error, does not crash, and
\* leaves the store as it was
WrongTypeIsTypeMismatch ==
    [][(/\ last'.op = "UpdateField"
        /\ last'.fieldName \in Updatable
        /\ last'.value.type # TypeOf(last'.fieldName)
        /\ written[last'.id] # << >>)
       => (last'.err = "TypeMismatch" /\ db' = db)]_vars

\* C8: in every layout, UpdateField on a stored id with the name "id" or a
\* name that is no field returns an UnsupportedField error
OtherFieldIsUnsupported ==
    (/\ last.op = "UpdateField"
     /\ last.fieldName \in {"id", "nosuch"}
     /\ written[last.id] # << >>)
    => last.err = "UnsupportedField"

\* C9: in every layout, ReadFieldSum of a field that is not numeric returns
\* an UnsupportedField error, not a sum of 0 without error
SumOfTextIsUnsupported ==
    (last.op = "ReadFieldSum" /\ Ready /\ last.fieldName \in {"username", "is_active"})
    => last.err = "UnsupportedField"

RECURSIVE BalanceBelow(_)
\* the sum of the balances written under the ids below n
BalanceBelow(n) ==
    IF n = 0 THEN 0
    ELSE BalanceBelow(n - 1) + (IF written[n - 1] # << >> THEN written[n - 1][1].Balance ELSE 0)

\* C10: in every layout, after N records were written, ReadFieldSum("balance", N)
\* is the exact sum of the balances written
BalanceSumIsExact ==
    (/\ last.op = "ReadFieldSum" /\ last.fieldName = "balance"
     /\ Populated /\ NWritten > 0 /\ last.count = NWritten)
    => (last.err = "nil" /\ last.sum = BalanceBelow(MaxId + 1))

----------------------------------------------------------------------------
(* The two binary codecs on their own: a record, its encoding, the decoding *)
(* of that encoding                                                          *)

TextFields == {"Username", "Email", "FirstName", "LastName", "Description"}

\* records whose five texts are empty or not, one by one, and whose other
\* fields are all zero or all those of a generated user
CodecRecords ==
    {[f \in DOMAIN UserInfo |->
         IF f \in TextFields THEN (IF f \in full THEN GenUser(0)[f] ELSE << >>)
         ELSE base[f]] :
        full \in SUBSET TextFields, base \in {UserInfo, GenUser(0)}}

CodecInit ==
    /\ db = EmptyDB
    /\ strategy \in {"Binary", "Binary+Names"}
    /\ \E user \in CodecRecords : last = [op |-> "record", user |-> user]
    /\ written = NoUser
    /\ nUpdates = 0

\* encodeBinary(user) or encodeBinaryWithNames(user), as Write calls it
CallEncode ==
    /\ last.op = "record"
    /\ last' = IF strategy = "Binary"
               THEN [op |-> "encoded", user |-> last.user, err |-> "nil",
                     data |-> encodeBinary(last.user)]
               ELSE LET r == encodeBinaryWithNames(last.user)
                    IN  [op |-> "encoded", user |-> last.user, err |-> r.err, data |-> r.data]
    /\ UNCHANGED <<db, strategy, written, nUpdates>>

\* decodeBinary(data) or decodeBinaryWithNames(data), as Read calls it
CallDecode ==
    /\ last.op = "encoded" /\ last.err = "nil"
    /\ LET r == IF strategy = "Binary" THEN decodeBinary(last.data)
                ELSE decodeBinaryWithNames(last.data)
       IN  last' = [op |-> "decoded", user |-> last.user, err |-> r.err, out |-> r.user]
    /\ UNCHANGED <<db, strategy, written, nUpdates>>

CodecNext ==
    \/ CallEncode
    \/ CallDecode

CodecSpec == CodecInit /\ [][CodecNext]_vars

\* C4: for the Binary and the Binary+Names codec, decode(encode(r)) succeeds
\* and is r field for field, for every record whose five texts are empty or
\* not, an empty description and all-zero numbers included
DecodeOfEncodeIsTheRecord ==
    last.op = "decoded" => (last.err = "nil" /\ last.out = <<last.user>>)

----------------------------------------------------------------------------
(* The insertion variant and the calls with a record that cannot be encoded *)

\* the Write calls of the first n users of a slice, each with the error it
\* returned: nil for all but the last, err for the last
WriteCalls(users, n, err) ==
    [k \in 1..n |-> [op |-> "Write", users |-> <<users[k]>>,
                     err |-> IF k < n THEN "nil" ELSE err]]

RECURSIVE WriteAllFrom(_, _, _, _)
\* a loop that drops the error of Write and goes on to the next user
WriteAllAfter_GoesOn(s, r, users, i) == WriteAllFrom(s, r.db, users, i + 1)

\* the body of the loop of WriteAll after Write(users[i]) returned r: its
\* error (or panic) ends the loop, i calls issued
WriteAllAfter(s, r, users, i) ==
    IF r.err # "nil" THEN [err |-> r.err, db |-> r.db, calls |-> WriteCalls(users, i, r.err)]
    ELSE WriteAllFrom(s, r.db, users, i + 1)

\* StrategyVariant.WriteAll without Bulk, from the i-th user on: one Write
\* per user in slice order, each its own transaction
WriteAllFrom(s, store, users, i) ==
    IF i > Len(users)
    THEN [err |-> "nil", db |-> store, calls |-> WriteCalls(users, Len(users), "nil")]
    ELSE WriteAllAfter(s, Write(s, store, users[i]), users, i)

\* StrategyVariant.WriteAll with Bulk, WriteMany(users) having returned r
WriteAllBulk(r, users) ==
    [err |-> r.err, db |-> r.db,
     calls |-> <<[op |-> "WriteMany", users |-> users, err |-> r.err]>>]

\* the outcome r of a loop of Writes made all or nothing: the store as it
\* was before the loop when a Write failed
AllOrNothing(store, r) == [r EXCEPT !.db = IF r.err = "nil" THEN r.db ELSE store]

\* a WriteAll that undoes the Writes of its loop when one of them fails
WriteAll_UndoesTheLoop(s, bulk, store, users) ==
    IF bulk THEN WriteAllBulk(WriteMany(s, store, users), users)
    ELSE AllOrNothing(store, WriteAllFrom(s, store, users, 1))

\* a WriteAll whose loop ranges over users[1:]
WriteAll_SkipsTheFirst(s, bulk, store, users) ==
    IF bulk THEN WriteAllBulk(WriteMany(s, store, users), users)
    ELSE WriteAllFrom(s, store, users, 2)

\* StrategyVariant.WriteAll: its error, the store it leaves and the calls of
\* the strategy it issued, in order
WriteAll(s, bulk, store, users) ==
    IF bulk THEN WriteAllBulk(WriteMany(s, store, users), users)
    ELSE WriteAllFrom(s, store, users, 1)

\* a user whose balance is not a number
NaNUser == [GenUser(MaxId) EXCEPT !.Balance = NaN]

\* a slice with the user that json.Marshal refuses after the first user.
\* The field-per-key layouts convert a float to uint64, which for NaN is
\* implementation-dependent: they are handed the generated users only
FaultRoster(s) ==
    IF s \in {"MultiKV", "NestedBucket"} THEN [i \in 1..(MaxId + 1) |-> GenUser(i - 1)]
    ELSE <<GenUser(0), NaNUser>> \o [i \in 1..MaxId |-> GenUser(i)]

\* the runs of at most MaxBatch users of the slice, the empty one included
FaultBatches(s) ==
    {SubSeq(FaultRoster(s), p[1], p[2]) :
        p \in {q \in (1..Len(FaultRoster(s))) \X (0..Len(FaultRoster(s))) :
                  q[2] >= q[1] - 1 /\ q[2] - q[1] < MaxBatch}}

FaultWrite ==
    \E i \in 1..Len(FaultRoster(strategy)) :
        LET user == FaultRoster(strategy)[i]
            r == Write(strategy, db, user)
        IN  /\ db' = r.db
            /\ last' = [op |-> "Write", user |-> user, err |-> r.err]
            /\ written' = IF r.err = "nil" THEN [written EXCEPT ![user.ID] = <<user>>]
                          ELSE written
            /\ UNCHANGED <<strategy, nUpdates>>

FaultWriteMany ==
    \E users \in FaultBatches(strategy) :
        LET r == WriteMany(strategy, db, users)
        IN  /\ db' = r.db
            /\ last' = [op |-> "WriteMany", users |-> users, err |-> r.err]
            /\ written' = IF r.err = "nil" THEN LastOf(written, users) ELSE written
            /\ UNCHANGED <<strategy, nUpdates>>

\* the users of the calls of a WriteAll that returned no error
WrittenBy(r, users) ==
    SubSeq(users, 1, IF r.err = "nil" THEN Len(users)
                     ELSE IF r.calls[1].op = "WriteMany" THEN 0 ELSE Len(r.calls) - 1)

\* the state after a WriteAll of either variant whose outcome is r
AfterWriteAll(bulk, users, r) ==
    /\ db' = r.db
    /\ last' = [op |-> "WriteAll", bulk |-> bulk, users |-> users,
                err |-> r.err, calls |-> r.calls]
    /\ written' = LastOf(written, WrittenBy(r, users))
    /\ UNCHANGED <<strategy, nUpdates>>

CallWriteAll ==
    \E bulk \in BOOLEAN, users \in FaultBatches(strategy) :
        AfterWriteAll(bulk, users, WriteAll(strategy, bulk, db, users))

FaultNext ==
    \/ CallSetup
    \/ FaultWrite
    \/ FaultWriteMany
    \/ CallWriteAll
    \/ CallRead
    \/ CallReadMany
    \/ CallUpdateField

FaultSpec == Init /\ [][FaultNext]_vars

----------------------------------------------------------------------------
(* The contract, continued: sums, batches, missing containers, rollback     *)

\* the login_count Read shows for a written id, the written one when Read
\* fails
LoginCountOf(id) ==
    LET r == Read(strategy, db, id)
    IN  IF r.err = "nil" /\ r.user # << >> THEN r.user[1].LoginCount
        ELSE written[id][1].LoginCount

RECURSIVE LoginCountFrom(_, _)
\* the sum of login_count over the first n written ids from id on
LoginCountFrom(id, n) ==
    IF id > MaxId \/ n <= 0 THEN 0
    ELSE IF written[id] = << >> THEN LoginCountFrom(id + 1, n)
    ELSE LoginCountOf(id) + LoginCountFrom(id + 1, n - 1)

\* C11: in every layout, ReadFieldSum("login_count", count) returns without
\* error the sum of login_count over the min(count, N) written records of the
\* smallest ids, 0 when count is 0 or nothing was written
LoginSumIsOverTheFirst ==
    (last.op = "ReadFieldSum" /\ last.fieldName = "login_count" /\ Ready)
    => (last.err = "nil" /\ last.sum = 4 * LoginCountFrom(0, last.count))

\* every user of the slice is there for a later Read
AllVisible(store, users) ==
    \A i \in 1..Len(users) :
        /\ StoredIn(strategy, store, users[i].ID)
        /\ Read(strategy, store, users[i].ID).err = "nil"

\* C12: in every layout a WriteMany is all or nothing: when the encoding or
\* the storing of a record of the slice fails, the call returns an error
\* value and the store is as it was before the call, no earlier record of the
\* slice in it; when it returns no error, every record of the slice is there
WriteManyIsAllOrNothing ==
    [][last'.op = "WriteMany"
       => /\ last'.err # "panic"
          /\ last'.err # "nil" => db' = db
          /\ last'.err = "nil" => AllVisible(db', last'.users)]_vars

\* C13: in every layout a Write, and a WriteMany of at least one record, on
\* a store whose root bucket does not exist (Setup never ran) returns an
\* error value, does not panic, and leaves the store unchanged
WriteWithoutRootIsAnError ==
    [][(/\ ~Ready
        /\ \/ last'.op = "Write"
           \/ last'.op = "WriteMany" /\ last'.users # << >>)
       => (last'.err \notin {"nil", "panic"} /\ db' = db)]_vars

\* C14: in every layout, when a Write, a WriteMany or an UpdateField returns
\* an error, the store is what it was before the call: the transaction is
\* rolled back, the puts made before the error included
ErrorRollsBack ==
    [][(/\ last'.op \in {"Write", "WriteMany", "UpdateField"}
        /\ last'.err \notin {"nil", "panic"})
       => db' = db]_vars

\* a WriteMany has returned the error of the encoding of its second record,
\* after the put of the first one, and the first one is not in the store
RolledBackAfterAPut ==
    /\ Ready
    /\ last.op = "WriteMany" /\ last.err = "EncodeError"
    /\ Len(last.users) = 2 /\ ~jsonUnsupported(last.users[1])
    /\ ~StoredIn(strategy, db, last.users[1].ID)

\* C17: in every layout a Read that returns an error returns no record with
\* it (nil, not a zero-filled or partly filled record), and a Read that
\* returns no error returns a record, that of an id which was written
ReadErrorHasNoRecord ==
    last.op = "Read"
    => /\ last.err \notin {"nil", "panic"} => last.user = << >>
       /\ last.err = "nil" => (last.user # << >> /\ written[last.id] # << >>)

\* C18: in every layout Setup is idempotent: on a store whose root bucket
\* exists, records written or not, it returns no error and leaves the store
\* as it is; and after a Setup that returned no error the root bucket exists
SetupIsIdempotent ==
    [][last'.op = "Setup"
       => /\ last'.err = "nil" => Ready'
          /\ Ready => (last'.err = "nil" /\ db' = db)]_vars

\* Setup was the last call and the store holds a record: Setup ran on a
\* store with its root bucket and records in it
SetupAfterWrites ==
    /\ last.op = "Setup" /\ last.err = "nil" /\ Ready
    /\ \E id \in Ids : StoredIn(strategy, db, id)

\* C19: in every layout an UpdateField made a second time with the same
\* arguments leaves the store as the first call left it: the same record of
\* the id, every other record untouched
UpdateTwiceIsUpdateOnce ==
    last.op = "UpdateField"
    => UpdateField(strategy, db, last.id, last.fieldName, last.value).db = db

\* an UpdateField has set login_count to a value the written record did not
\* hold, and a Read shows it
LoginCountWasUpdated ==
    /\ last.op = "UpdateField" /\ last.err = "nil" /\ last.fieldName = "login_count"
    /\ nUpdates > 0 /\ written[last.id] # << >>
    /\ written[last.id][1].LoginCount # last.value.v
    /\ Read(strategy, db, last.id).err = "nil"
    /\ Read(strategy, db, last.id).user[1].LoginCount = last.value.v

\* the number of calls of a WriteAll that returned no error
Succeeded(calls) == Cardinality({k \in 1..Len(calls) : calls[k].err = "nil"})

\* C20 as stated: WriteAll with Bulk issues exactly one WriteMany of the whole
\* slice and no Write; without Bulk it issues one Write per record of the
\* slice, in slice order, and no WriteMany
WriteAllIsOneCallPerRecord ==
    last.op = "WriteAll"
    => IF last.bulk
       THEN Len(last.calls) = 1 /\ last.calls[1].op = "WriteMany"
            /\ last.calls[1].users = last.users
       ELSE /\ Len(last.calls) = Len(last.users)
            /\ \A k \in 1..Len(last.calls) :
                   last.calls[k].op = "Write" /\ last.calls[k].users = <<last.users[k]>>

\* C20, amended: WriteAll with Bulk issues exactly one WriteMany of the whole
\* slice and no Write; without Bulk it issues Write calls only, for the
\* records of the slice in slice order, each its own transaction, one per
\* record up to the first Write that fails: that call is the last one, its
\* error is the error of WriteAll, and the records written before it stay
WriteAllStopsAtAFailure ==
    last.op = "WriteAll"
    => IF last.bulk
       THEN Len(last.calls) = 1 /\ last.calls[1].op = "WriteMany"
            /\ last.calls[1].users = last.users
       ELSE /\ Len(last.calls) <= Len(last.users)
            /\ \A k \in 1..Len(last.calls) :
                   /\ last.calls[k].op = "Write" /\ last.calls[k].users = <<last.users[k]>>
                   /\ k < Len(last.calls) => last.calls[k].err = "nil"
            /\ last.err = "nil" => Succeeded(last.calls) = Len(last.users)
            /\ last.err # "nil" => last.calls[Len(last.calls)].err = last.err
            /\ AllVisible(db, SubSeq(last.users, 1, Succeeded(last.calls)))

\* a WriteAll without Bulk on a store with its root bucket has stopped at a
\* Write that returned an error, before the end of the slice
WriteAllStoppedEarly ==
    /\ last.op = "WriteAll" /\ ~last.bulk /\ Ready
    /\ last.err \notin {"nil", "panic"}
    /\ Len(last.calls) < Len(last.users)

----------------------------------------------------------------------------
(* Two strategies side by side: the same calls on two fresh stores          *)

\* the user of generateUser(id) with floats that hold whole numbers
WholeUser(id) == [GenUser(id) EXCEPT !.Balance = 400 + 4 * id, !.Score = 80]

WholeRoster == [i \in 1..(MaxId + 1) |-> WholeUser(i - 1)]

\* the runs of at most MaxBatch users of the roster, the empty one included
WholeBatches ==
    {SubSeq(WholeRoster, p[1], p[2]) :
        p \in {q \in (1..Len(WholeRoster)) \X (0..Len(WholeRoster)) :
                  q[2] >= q[1] - 1 /\ q[2] - q[1] < MaxBatch}}

\* the (fieldName, value) pairs of the UpdateField calls, the floats whole
WholeArgs ==
    {<<"balance", [type |-> "float64", v |-> 400]>>,
     <<"login_count", [type |-> "int32", v |-> 5]>>,
     <<"balance", [type |-> "int32", v |-> 5]>>,
     <<"nosuch", [type |-> "float64", v |-> 400]>>}

\* the pairs of different strategies
StrategyPairs == {p \in Strategies \X Strategies : p[1] # p[2]}

PairInit ==
    /\ strategy \in StrategyPairs
    /\ db = <<EmptyDB, EmptyDB>>
    /\ last = [op |-> "none"]
    /\ written = NoUser
    /\ nUpdates = 0

\* the state after a call that writes, r1 and r2 its outcomes in the two
\* stores; at most MaxUpdates UpdateField calls that change a store
AfterBoth(op, args, r1, r2) ==
    /\ op = "UpdateField" /\ <<r1.db, r2.db>> # db => nUpdates < MaxUpdates
    /\ db' = <<r1.db, r2.db>>
    /\ nUpdates' = IF op = "UpdateField" /\ <<r1.db, r2.db>> # db THEN nUpdates + 1
                   ELSE nUpdates
    /\ last' = [op |-> op, args |-> args, out |-> <<[err |-> r1.err], [err |-> r2.err]>>]
    /\ UNCHANGED <<strategy, written>>

\* the state after a call that reads, r1 and r2 what it returned from the
\* two stores
ReadBoth(op, args, r1, r2) ==
    /\ last' = [op |-> op, args |-> args, out |-> <<r1, r2>>]
    /\ UNCHANGED <<db, strategy, written, nUpdates>>

BothSetup ==
    AfterBoth("Setup", << >>, Setup(strategy[1], db[1]), Setup(strategy[2], db[2]))

BothWrite ==
    \E i \in 1..Len(WholeRoster) :
        AfterBoth("Write", <<WholeRoster[i]>>,
                  Write(strategy[1], db[1], WholeRoster[i]),
                  Write(strategy[2], db[2], WholeRoster[i]))

BothWriteMany ==
    \E users \in WholeBatches :
        AfterBoth("WriteMany", <<users>>,
                  WriteMany(strategy[1], db[1], users),
                  WriteMany(strategy[2], db[2], users))

BothUpdateField ==
    \E id \in Ids, a \in WholeArgs :
        AfterBoth("UpdateField", <<id, a[1], a[2]>>,
                  UpdateField(strategy[1], db[1], id, a[1], a[2]),
                  UpdateField(strategy[2], db[2], id, a[1], a[2]))

BothRead ==
    \E id \in Ids :
        ReadBoth("Read", <<id>>, Read(strategy[1], db[1], id), Read(strategy[2], db[2], id))

BothReadMany ==
    \E startId \in Ids, count \in Counts :
        ReadBoth("ReadMany", <<startId, count>>,
                 ReadMany(strategy[1], db[1], startId, count),
                 ReadMany(strategy[2], db[2], startId, count))

BothReadFieldSum ==
    \E fieldName \in SumFields, count \in Counts :
        ReadBoth("ReadFieldSum", <<fieldName, count>>,
                 ReadFieldSum(strategy[1], db[1], fieldName, count),
                 ReadFieldSum(strategy[2], db[2], fieldName, count))

PairNext ==
    \/ BothSetup
    \/ BothWrite
    \/ BothWriteMany
    \/ BothUpdateField
    \/ BothRead
    \/ BothReadMany
    \/ BothReadFieldSum

PairSpec == PairInit /\ [][PairNext]_vars

\* C15: the six strategies are interchangeable: for every sequence of calls
\* made alike on two fresh stores of two different strategies, the records
\* holding whole floats, each call has the same outcome in both: the same
\* error kind or success, the same records field for field, the same sum
StrategiesAreInterchangeable ==
    last.op # "none" => last.out[1] = last.out[2]

----------------------------------------------------------------------------
(* Signed ids: records whose id is negative                                 *)

\* the ids of the records: int64, negative ones included
SignedIds == (-1)..MaxId

SignedInit ==
    /\ db = EmptyDB
    /\ strategy \in Strategies
    /\ last = [op |-> "none"]
    /\ written = [id \in SignedIds |-> << >>]
    /\ nUpdates = 0

\* the state after Write(user) returned r
AfterWrite(user, r) ==
    /\ db' = r.db
    /\ last' = [op |-> "Write", user |-> user, err |-> r.err]
    /\ written' = IF r.err = "nil" THEN [written EXCEPT ![user.ID] = <<user>>] ELSE written
    /\ UNCHANGED <<strategy, nUpdates>>

SignedWrite ==
    \E id \in SignedIds : AfterWrite(WholeUser(id), Write(strategy, db, WholeUser(id)))

\* the state after ReadMany(startId, count) returned r
AfterReadMany(startId, count, r) ==
    /\ last' = [op |-> "ReadMany", startId |-> startId, count |-> count,
                err |-> r.err, users |-> r.users]
    /\ UNCHANGED <<db, strategy, written, nUpdates>>

SignedReadMany ==
    \E startId \in SignedIds, count \in 0..(MaxId + 2) :
        AfterReadMany(startId, count, ReadMany(strategy, db, startId, count))

SignedNext ==
    \/ CallSetup
    \/ SignedWrite
    \/ SignedReadMany

SignedSpec == SignedInit /\ [][SignedNext]_vars

\* C16: in every layout, whatever the signed ids of the stored records,
\* ReadMany(startId, count) returns only records of ids >= startId, in
\* ascending order of the signed id, and with a count that covers the store
\* every stored record of an id >= startId
ReadManyIsInSignedOrder ==
    (last.op = "ReadMany" /\ Ready)
    => /\ last.err = "nil"
       /\ \A i \in 1..Len(last.users) : last.users[i].ID >= last.startId
       /\ \A i \in 1..(Len(last.users) - 1) : last.users[i].ID < last.users[i + 1].ID
       /\ last.count >= MaxId + 2
            => {last.users[i].ID : i \in 1..Len(last.users)}
                 = {id \in SignedIds : written[id] # << >> /\ id >= last.startId}

----------------------------------------------------------------------------
(* Several strategies on one store                                          *)

\* the store after strategy t, unless it is s, has run Setup and a WriteMany
\* of the generated users on it
SetUpOther(s, t, store) ==
    IF t = s THEN store
    ELSE WriteMany(t, Setup(t, store).db, SubSeq(Roster, 1, MaxId + 1)).db

\* the store after every strategy but s has done so, in the order main
\* lists them
SetUpOthers(s, store) ==
    SetUpOther(s, "NestedBucket",
      SetUpOther(s, "MultiKV",
        SetUpOther(s, "Binary+Names",
          SetUpOther(s, "Binary",
            SetUpOther(s, "GOB",
              SetUpOther(s, "JSON", store))))))

\* one store on which the five other strategies are set up and populated;
\* the strategy of the behaviour has not touched it yet
SharedInit ==
    /\ strategy \in Strategies
    /\ db = SetUpOthers(strategy, EmptyDB)
    /\ last = [op |-> "none"]
    /\ written = NoUser
    /\ nUpdates = 0

SharedSpec == SharedInit /\ [][Next]_vars

\* the store with every root bucket but that of the strategy absent
Alone(store) ==
    [b \in BucketNames |-> IF b = BucketOf(strategy) THEN store[b] ELSE EmptyDB[b]]

\* C21: the representation of a layout belongs to its strategy alone: on a
\* store where the other strategies are set up and populated, every call of
\* the strategy leaves the root bucket of every other strategy as it was,
\* and every read returns what it returns when the other buckets are absent
RepresentationIsOwned ==
    [][/\ \A t \in Strategies \ {strategy} : db'[BucketOf(t)] = db[BucketOf(t)]
       /\ last'.op = "Read"
            => Read(strategy, Alone(db), last'.id) = [err |-> last'.err, user |-> last'.user]
       /\ last'.op = "ReadMany"
            => ReadMany(strategy, Alone(db), last'.startId, last'.count)
                 = [err |-> last'.err, users |-> last'.users]
       /\ last'.op = "ReadFieldSum"
            => ReadFieldSum(strategy, Alone(db), last'.fieldName, last'.count)
                 = [err |-> last'.err, sum |-> last'.sum]]_vars

\* the strategy has written a record and read it back on a store where
\* every other strategy holds records
ReadAmongOthers ==
    /\ last.op = "Read" /\ last.err = "nil" /\ written[last.id] # << >>
    /\ \A t \in Strategies \ {strategy} :
           db[BucketOf(t)].exists /\ StoredIn(t, db, last.id)

----------------------------------------------------------------------------
(* The driver: the calls of one run of runBenchmark                         *)

\* the record counts of the trials
RecordCounts == 2..MaxRecords

\* rand.Perm(rc)[:rc/2]: rc/2 different ids of 0..rc-1 in any order
HalfPerms(rc) ==
    {p \in [1..(rc \div 2) -> 0..(rc - 1)] :
        \A i, j \in 1..(rc \div 2) : i # j => p[i] # p[j]}

\* a run of runBenchmark about to start: the store is left out, the run is
\* its record count, the ids main drew and the call it has come to
BenchInit ==
    /\ strategy \in Strategies
    /\ db = EmptyDB
    /\ written = NoUser
    /\ nUpdates = 0
    /\ \E rc \in RecordCounts :
           \E readIDs \in HalfPerms(rc), updateIDs \in HalfPerms(rc) :
               last = [op |-> "none", recordCount |-> rc, readIDs |-> readIDs,
                       updateIDs |-> updateIDs, i |-> 0, args |-> << >>]

\* the run issues the call op with the arguments args and is at index i of
\* its loop
Issue(op, i, args) ==
    /\ last' = [last EXCEPT !.op = op, !.i = i, !.args = args]
    /\ UNCHANGED <<db, strategy, written, nUpdates>>

BenchSetup == last.op = "none" /\ Issue("Setup", 0, << >>)

BenchWriteAll == last.op = "Setup" /\ Issue("WriteAll", 0, <<last.recordCount>>)

BenchRead ==
    /\ last.op \in {"WriteAll", "Read"} /\ last.i < Len(last.readIDs)
    /\ Issue("Read", last.i + 1, <<last.readIDs[last.i + 1]>>)

BenchReadMany ==
    /\ last.op = "Read" /\ last.i = Len(last.readIDs)
    /\ Issue("ReadMany", 0, <<last.readIDs[1], Len(last.readIDs)>>)

BenchReadFieldSum ==
    last.op = "ReadMany" /\ Issue("ReadFieldSum", 0, <<"balance", last.recordCount>>)

BenchUpdateField ==
    /\ last.op \in {"ReadFieldSum", "UpdateField"} /\ last.i < Len(last.updateIDs)
    /\ Issue("UpdateField", last.i + 1, <<last.updateIDs[last.i + 1], "balance">>)

BenchNext ==
    \/ BenchSetup
    \/ BenchWriteAll
    \/ BenchRead
    \/ BenchReadMany
    \/ BenchReadFieldSum
    \/ BenchUpdateField

BenchSpec == BenchInit /\ [][BenchNext]_vars

\* C22: in a run on N records the ReadMany test is one ReadMany call that
\* asks for N/3 records from the middle id N/2 on
ReadManyTestIsTheMiddleThird ==
    last.op = "ReadMany"
    => last.args = <<last.recordCount \div 2, last.recordCount \div 3>>


----------------------------------------------------------------------------
(* NestedBucket writes on a store that refuses a Put: bucket.Put returns an *)
(* error (a value over the size limit of the store) and changes nothing     *)

\* the fields whose Put the store may refuse in a call
RefusableFields == {"balance", "description"}

\* the Puts a call finds refused: field `field` of the records of id `id`;
\* no Put at all when field is ""
Refusals == {[id |-> id, field |-> f] : id \in Ids, f \in RefusableFields \cup {""}}

\* bucket.Put(key, value) by a caller that drops its error: the pairs after
\* the call, those before it when the store refuses the Put
PutOrRefuse(kv, key, value, refuse) == IF refuse THEN kv ELSE Put(kv, key, value)

RECURSIVE NestedBucket_putFieldsRefused(_, _, _, _)
\* the fifteen userBucket.Put calls of writeUserFields: the error of each is
\* dropped and the next Put follows
NestedBucket_putFieldsRefused(userBucket, user, i, refusal) ==
    IF i > Len(FieldNames) THEN userBucket
    ELSE NestedBucket_putFieldsRefused(
             PutOrRefuse(userBucket, Bytes[FieldNames[i]],
                         NestedBucket_fieldValue(user, FieldNames[i]),
                         refusal.id = user.ID /\ refusal.field = FieldNames[i]),
             user, i + 1, refusal)

\* writeUserFields: CreateBucketIfNotExists(userKey), the Puts, return nil
NestedBucket_writeUserFieldsRefused(rootBucket, user, refusal) ==
    LET userKey == IdKey(user.ID)
        userBucket == IF Has(rootBucket.kv, userKey) THEN Get(rootBucket.kv, userKey) ELSE << >>
    IN  IF ~rootBucket.exists THEN [err |-> "panic", kv |-> rootBucket.kv]
        ELSE [err |-> "nil",
              kv |-> Put(rootBucket.kv, userKey,
                         NestedBucket_putFieldsRefused(userBucket, user, 1, refusal))]

RECURSIVE NestedBucket_WriteManyRefusedFrom(_, _, _, _)
NestedBucket_WriteManyRefusedFrom(b, users, i, refusal) ==
    IF i > Len(users) THEN [err |-> "nil", kv |-> b.kv]
    ELSE LET r == NestedBucket_writeUserFieldsRefused(b, users[i], refusal)
         IN  IF r.err # "nil" THEN r
             ELSE NestedBucket_WriteManyRefusedFrom([b EXCEPT !.kv = r.kv], users, i + 1, refusal)

\* Write and WriteMany: one db.Update around writeUserFields of each user
NestedBucket_WriteManyRefused(store, users, refusal) ==
    LET r == NestedBucket_WriteManyRefusedFrom(store["users_nested"], users, 1, refusal)
    IN  Update(store, [err |-> r.err, db |-> [store EXCEPT !["users_nested"].kv = r.kv]])

RefuseInit ==
    /\ strategy = "NestedBucket"
    /\ db = EmptyDB
    /\ last = [op |-> "none"]
    /\ written = NoUser
    /\ nUpdates = 0

\* the state after a write that met the refusal `refusal`; refused tells
\* whether a Put of the call was refused
AfterRefused(op, users, refusal, r) ==
    /\ db' = r.db
    /\ last' = [op |-> op, users |-> users, err |-> r.err,
                refused |-> /\ db["users_nested"].exists
                            /\ refusal.field # ""
                            /\ \E i \in 1..Len(users) : users[i].ID = refusal.id]
    /\ UNCHANGED <<strategy, written, nUpdates>>

RefusedWrite ==
    \E user \in Users, refusal \in Refusals :
        AfterRefused("Write", <<user>>, refusal,
                     NestedBucket_WriteManyRefused(db, <<user>>, refusal))

RefusedWriteMany ==
    \E users \in Batches, refusal \in Refusals :
        AfterRefused("WriteMany", users, refusal,
                     NestedBucket_WriteManyRefused(db, users, refusal))

RefuseNext ==
    \/ CallSetup
    \/ RefusedWrite
    \/ RefusedWriteMany
    \/ CallRead

RefuseSpec == RefuseInit /\ [][RefuseNext]_vars

\* C23: a NestedBucket Write or WriteMany that has a Put of a field refused
\* by the store returns an error and leaves the store as it was
RefusedPutAbortsTheWrite ==
    [][last'.op \in {"Write", "WriteMany"} /\ last'.refused
          => last'.err # "nil" /\ db' = db]_vars


----------------------------------------------------------------------------
(* A Binary store whose value of an id is not a whole encoding: the file    *)
(* was cut short or written by something else                               *)

\* the encoding of a user with the length prefix of its username raised by
\* n: the prefix asks for more bytes than the value holds when n is large
LongerPrefix(user, n) ==
    LET data == encodeBinary(user)
    IN  SubSeq(data, 1, 8) \o LittleEndian(4, Len(user.Username) + n)
          \o SubSeq(data, 13, Len(data))

\* the malformed values of a user: every strict prefix of its encoding, and
\* its encoding with a length prefix beyond the end of the value
Malformed(user) ==
    {SubSeq(encodeBinary(user), 1, cut) : cut \in 0..(Len(encodeBinary(user)) - 1)}
      \cup {LongerPrefix(user, Len(encodeBinary(user)))}

\* the root bucket of the Binary layout holding one malformed value
MalformedInit ==
    /\ strategy = "Binary"
    /\ \E user \in Users : \E data \in Malformed(user) :
           db = [Setup("Binary", EmptyDB).db EXCEPT
                    !["users_binary"].kv = Put(<< >>, IdKey(user.ID), data)]
    /\ last = [op |-> "none"]
    /\ written = NoUser
    /\ nUpdates = 0

MalformedNext ==
    \/ CallRead
    \/ CallReadMany

MalformedSpec == MalformedInit /\ [][MalformedNext]_vars

\* C24: a Binary Read of an id whose stored value is malformed returns a
\* DecodeError and no record
MalformedBinaryIsADecodeError ==
    last.op = "Read" /\ Has(db["users_binary"].kv, IdKey(last.id))
        => last.err = "DecodeError" /\ last.user = << >>


----------------------------------------------------------------------------
(* A Binary+Names store whose value of an id has one field tampered with:   *)
(* another type tag, or a name that is no field                             *)

\* a name of n bytes that spells no field
NoField(n) == [j \in 1..n |-> 120]

\* the type tags a byte may hold at the place of a tag: the six of the
\* format and the two next to them
TagBytes == 0..(tagBool + 1)

\* the encoding of a user with the name of its k-th field replaced by the
\* bytes name and its tag by the byte tag; the payload stays
Tampered(user, k, name, tag) ==
    LET all == encodeBinaryWithNamesFrom(user, 1)
        fromK == encodeBinaryWithNamesFrom(user, k)
        afterK == encodeBinaryWithNamesFrom(user, k + 1)
        nameK == Bytes[FieldNames[k]]
    IN  LittleEndian(4, Len(FieldNames))
          \o SubSeq(all, 1, Len(all) - Len(fromK))
          \o LittleEndian(4, Len(name)) \o name \o <<tag>>
          \o SubSeq(fromK, 4 + Len(nameK) + 2, Len(fromK) - Len(afterK))
          \o afterK

\* the tampered values of a user: for each field, every other tag under its
\* own name, and its own tag under a name that is no field (of the same
\* length, and empty)
TamperedValues(user) ==
    ({Tampered(user, k, Bytes[FieldNames[k]], tag) :
         k \in 1..Len(FieldNames), tag \in TagBytes} \ {encodeBinaryWithNames(user).data})
      \cup UNION {{Tampered(user, k, NoField(n), TagOf(TypeOf(FieldNames[k]))) :
                      n \in {0, 1, Len(Bytes[FieldNames[k]])}} : k \in 1..Len(FieldNames)}

\* the root bucket of the Binary+Names layout holding one tampered value
TamperedInit ==
    /\ strategy = "Binary+Names"
    /\ \E user \in Users : \E data \in TamperedValues(user) :
           db = [Setup("Binary+Names", EmptyDB).db EXCEPT
                    !["users_binary_names"].kv = Put(<< >>, IdKey(user.ID), data)]
    /\ last = [op |-> "none"]
    /\ written = NoUser
    /\ nUpdates = 0

TamperedSpec == TamperedInit /\ [][MalformedNext]_vars

----------------------------------------------------------------------------
(* The contract, continued: the sum of a field that cannot be summed        *)

\* C26: in the Binary+Names layout ReadFieldSum of a field outside balance,
\* score and login_count returns an error whatever the store holds and
\* whatever count is, an empty bucket and count 0 included
UnsupportedSumIgnoresTheStore ==
    /\ strategy = "Binary+Names"
    /\ db["users_binary_names"].exists
    /\ last.op = "ReadFieldSum"
    /\ last.fieldName \notin {"balance", "score", "login_count"}
    => last.err = "UnsupportedField"


\* C27: once Setup has run, no Read, ReadMany or ReadFieldSum panics, for
\* any id, startId and count, on any store the write calls have made
NoReadPanics ==
    Ready /\ last.op \in {"Read", "ReadMany", "ReadFieldSum"} => last.err # "panic"


----------------------------------------------------------------------------
(* The two insertion variants of one strategy side by side: db is the pair  *)
(* of the store of the Bulk variant and the store of the other, both made   *)
(* by the same calls                                                        *)

\* the users handed to WriteAll: the generated ones, the zero one of the
\* last id and, for the layouts that encode a float, the one json.Marshal
\* refuses
VariantUsers(s) == IF s \in {"MultiKV", "NestedBucket"} THEN Users ELSE Users \cup {NaNUser}

\* the slices WriteAll is called with: every sequence of at most MaxBatch of
\* the users, the same id twice included
VariantSlices(s) == UNION {[1..n -> VariantUsers(s)] : n \in 0..MaxBatch}

VariantInit ==
    /\ strategy \in Strategies
    /\ db = <<EmptyDB, EmptyDB>>
    /\ last = [op |-> "none", failed |-> FALSE]
    /\ written = NoUser
    /\ nUpdates = 0

\* the state after a call made on both stores; failed stays once a call
\* that writes returned an error or panicked on either store
AfterVariants(op, args, r1, r2, writes) ==
    /\ db' = IF writes THEN <<r1.db, r2.db>> ELSE db
    /\ last' = [op |-> op, args |-> args, err |-> <<r1.err, r2.err>>,
                out |-> IF writes THEN << >>
                        ELSE <<[f \in DOMAIN r1 \ {"err"} |-> r1[f]],
                               [f \in DOMAIN r2 \ {"err"} |-> r2[f]]>>,
                failed |-> last.failed \/ (writes /\ <<r1.err, r2.err>> # <<"nil", "nil">>)]
    /\ UNCHANGED <<strategy, written, nUpdates>>

VariantSetup ==
    AfterVariants("Setup", << >>, Setup(strategy, db[1]), Setup(strategy, db[2]), TRUE)

VariantWriteAll ==
    \E users \in VariantSlices(strategy) :
        AfterVariants("WriteAll", <<users>>, WriteAll(strategy, TRUE, db[1], users),
                      WriteAll(strategy, FALSE, db[2], users), TRUE)

VariantRead ==
    \E id \in Ids :
        AfterVariants("Read", <<id>>, Read(strategy, db[1], id), Read(strategy, db[2], id), FALSE)

VariantReadMany ==
    \E startId \in Ids, count \in Counts :
        AfterVariants("ReadMany", <<startId, count>>, ReadMany(strategy, db[1], startId, count),
                      ReadMany(strategy, db[2], startId, count), FALSE)

VariantReadFieldSum ==
    \E fieldName \in SumFields, count \in Counts :
        AfterVariants("ReadFieldSum", <<fieldName, count>>,
                      ReadFieldSum(strategy, db[1], fieldName, count),
                      ReadFieldSum(strategy, db[2], fieldName, count), FALSE)

VariantNext ==
    \/ VariantSetup
    \/ VariantWriteAll
    \/ VariantRead
    \/ VariantReadMany
    \/ VariantReadFieldSum

VariantSpec == VariantInit /\ [][VariantNext]_vars

\* C28: as long as no call has failed, a Read, ReadMany or ReadFieldSum
\* returns the same on the store WriteAll filled with Bulk and on the store
\* it filled without, for every strategy and every slice
VariantsReadTheSame ==
    last.op \in {"Read", "ReadMany", "ReadFieldSum"} /\ ~last.failed
        => last.err[1] = last.err[2] /\ last.out[1] = last.out[2]

\* a ReadMany that found a record of every id on both stores, the zero user
\* under the last id, after WriteAll calls none of which failed
ReadAfterBothVariants ==
    /\ last.op = "ReadMany" /\ ~last.failed
    /\ last.err = <<"nil", "nil">>
    /\ Len(last.out[1].users) = MaxId + 1
    /\ last.out[1].users[MaxId + 1] = ZeroUser(MaxId)


----------------------------------------------------------------------------
(* Writes over ids that are already stored: last keeps, next to the call,   *)
(* the ids that were written more than once so far                          *)

RewriteInit ==
    /\ strategy \in Strategies
    /\ db = EmptyDB
    /\ last = [op |-> "none", rewritten |-> {}]
    /\ written = NoUser
    /\ nUpdates = 0

\* the ids a successful write of users writes again: those stored before the
\* call and those twice in the slice
Rewrites(users) ==
    {users[i].ID : i \in {j \in 1..Len(users) :
        \/ written[users[j].ID] # << >>
        \/ \E k \in 1..(j - 1) : users[k].ID = users[j].ID}}

\* the state after Write or WriteMany of users returned r
AfterRewrite(op, users, r) ==
    /\ db' = r.db
    /\ last' = [op |-> op, users |-> users, err |-> r.err,
                rewritten |-> IF r.err = "nil" THEN last.rewritten \cup Rewrites(users)
                              ELSE last.rewritten]
    /\ written' = IF r.err = "nil" THEN LastOf(written, users) ELSE written
    /\ UNCHANGED <<strategy, nUpdates>>

RewriteWrite ==
    \E user \in Users : AfterRewrite("Write", <<user>>, Write(strategy, db, user))

RewriteWriteMany ==
    \E users \in Batches : AfterRewrite("WriteMany", users, WriteMany(strategy, db, users))

\* the result r of ReadMany(startId, count)
AfterRewriteRead(startId, count, r) ==
    /\ last' = [op |-> "ReadMany", startId |-> startId, count |-> count, err |-> r.err,
                users |-> r.users, rewritten |-> last.rewritten]
    /\ UNCHANGED <<db, strategy, written, nUpdates>>

RewriteReadMany ==
    \E startId \in Ids, count \in Counts :
        AfterRewriteRead(startId, count, ReadMany(strategy, db, startId, count))

RewriteSetup ==
    /\ db' = Setup(strategy, db).db
    /\ last' = [op |-> "Setup", err |-> Setup(strategy, db).err, rewritten |-> last.rewritten]
    /\ UNCHANGED <<strategy, written, nUpdates>>

RewriteNext ==
    \/ RewriteSetup
    \/ RewriteWrite
    \/ RewriteWriteMany
    \/ RewriteReadMany

RewriteSpec == RewriteInit /\ [][RewriteNext]_vars

\* C29: in every layout, a ReadMany over the whole store returns, of an id
\* that was written more than once, one record and no more, and that record
\* is the one of the latest write of the id, field for field
RewrittenIdsAreReadOnce ==
    last.op = "ReadMany" /\ last.startId = 0 /\ last.count >= NWritten
    => \A id \in last.rewritten :
          /\ Cardinality({i \in 1..Len(last.users) : last.users[i].ID = id}) = 1
          /\ \A i \in 1..Len(last.users) :
                 last.users[i].ID = id => <<last.users[i]>> = written[id]


----------------------------------------------------------------------------
(* The insertion variant without Bulk, when a Write fails                   *)

\* C30: when the i-th Write of a WriteAll without Bulk fails, WriteAll ends
\* with that failure at once (the error Write returned is the one WriteAll
\* returns): the Write calls are those of the records up to the i-th, none
\* after it; the store is the one the Writes before the i-th left, and their
\* records are there for a later Read
LoopKeepsWhatWasWritten ==
    [][last'.op = "WriteAll" /\ ~last'.bulk /\ last'.err # "nil"
       => /\ Len(last'.calls) \in 1..Len(last'.users)
          /\ last'.calls[Len(last'.calls)].err = last'.err
          /\ \A k \in 1..Len(last'.calls) :
                 /\ last'.calls[k] = [op |-> "Write", users |-> <<last'.users[k]>>,
                                      err |-> IF k < Len(last'.calls) THEN "nil" ELSE last'.err]
          /\ db' = WriteAll(strategy, FALSE, db,
                            SubSeq(last'.users, 1, Len(last'.calls) - 1)).db
          /\ AllVisible(db', SubSeq(last'.users, 1, Len(last'.calls) - 1))]_vars

\* a WriteAll without Bulk whose second Write returned an error: the record
\* of the first Write is stored
LoopFailedAfterAWrite ==
    /\ last.op = "WriteAll" /\ ~last.bulk
    /\ last.err \notin {"nil", "panic"}
    /\ Len(last.calls) = 2
    /\ StoredIn(strategy, db, last.users[1].ID)
    /\ Read(strategy, db, last.users[1].ID).err = "nil"

====
